---- MODULE Spec2Model ----
(***************************************************************************)
(* Model of fastapi-crud-kit's filter pipeline:                            *)
(*   query/filters/operators.py   FilterOperator (the operator registry)   *)
(*   query/filters/allowed.py     AllowedFilter (the allow-list policy)    *)
(*   query/filters/schema.py      RawFilterSchema, FilterSchema            *)
(*   query/filters/validator.py   resolve_and_validate_filters             *)
(*   query/exceptions.py          the two request-time errors              *)
(*   query/filters/parser.py      parse_filter_params                      *)
(*   query/builder.py             QueryBuilder, AsyncQueryBuilder          *)
(*   crud/manager/*.py            SyncCRUDManager, AsyncCRUDManager        *)
(*                                                                         *)
(* A Python str that the code splits, strips or lower-cases is a sequence  *)
(* of one-character strings; names and operators, which the code only      *)
(* compares and looks up, are TLA+ strings.  A Python value of type        *)
(* str | list[str] | bool is a record tagged by its type.                  *)
(***************************************************************************)
EXTENDS Integers, Sequences, FiniteSets, TLC

VARIABLES
    pc,               \* "idle" | "returned": position of the one caller
    raw_filters,      \* argument raw_filters of the call in progress
    allowed_filters,  \* argument allowed_filters of the call in progress
    result,           \* what resolve_and_validate_filters returned or raised
    ctor,             \* arguments of the AllowedFilter construction in progress
    obj,              \* what that construction produced or raised
    request,          \* query parameters of the request being parsed
    parsed,           \* what parse_filter_params returned or raised
    params,           \* QueryParams handed to the query builder
    built,            \* the query the builder returned
    write,            \* the manager's write call in progress
    session,          \* calls the session has received during that write
    outcome,          \* what the write call returned or raised
    store,            \* the committed rows of the model's table
    reqs              \* the CRUDBase call of each concurrent request

resolver_vars == <<raw_filters, allowed_filters, result>>
ctor_vars == <<ctor, obj>>
parser_vars == <<request, parsed>>
builder_vars == <<params, built>>
manager_vars == <<write, session, outcome>>
crud_vars == <<store, reqs>>

vars ==
    <<pc, resolver_vars, ctor_vars, parser_vars, builder_vars, manager_vars,
      crud_vars>>

(***************************************************************************)
(* Bounds of the model.                                                    *)
(***************************************************************************)
MaxFilters == 2      \* raw filters in one request
MaxPolicy == 2       \* allowed filters in one policy
MaxValues == 2       \* raw values of one raw filter
MaxStrLen == 2       \* characters of a generated raw value
MaxAllowedOps == 2   \* operators in a caller-supplied allowed_operators list
MaxParams == 2       \* name=value pairs in one query string
MaxBuild == 2        \* entries of one list handed to the query builder

\* Python's None for an absent str (operator, alias).
None == "<None>"

\* An optional list or dict argument: None, or the collection v.
NoneArg == [is_none |-> TRUE]
Some(v) == [is_none |-> FALSE, v |-> v]

Range(s) == {s[i] : i \in DOMAIN s}

\* All sequences over S of length lo..hi.
SeqsOf(S, lo, hi) == UNION {[1..n -> S] : n \in lo..hi}

(***************************************************************************)
(* Python str operations used by _normalize_filter_value.                  *)
(***************************************************************************)
Whitespace == {" ", "\t", "\n"}

\* str.lower() on one character.
LowerChar(c) ==
    CASE c = "T" -> "t"
      [] c = "R" -> "r"
      [] c = "U" -> "u"
      [] c = "E" -> "e"
      [] c = "Y" -> "y"
      [] c = "S" -> "s"
      [] OTHER -> c

\* str.lower()
Lower(s) == [i \in 1..Len(s) |-> LowerChar(s[i])]

RECURSIVE LStrip(_)
LStrip(s) ==
    IF s # <<>> /\ Head(s) \in Whitespace THEN LStrip(Tail(s)) ELSE s

RECURSIVE RStrip(_)
RStrip(s) ==
    IF s # <<>> /\ s[Len(s)] \in Whitespace
    THEN RStrip(SubSeq(s, 1, Len(s) - 1))
    ELSE s

\* str.strip()
Strip(s) == RStrip(LStrip(s))

\* "," in v
HasComma(s) == \E i \in 1..Len(s) : s[i] = ","

\* str.split(","): the pieces between commas, empty pieces included.
RECURSIVE SplitFrom(_, _, _)
SplitFrom(s, i, piece) ==
    IF i > Len(s) THEN <<piece>>
    ELSE IF s[i] = "," THEN <<piece>> \o SplitFrom(s, i + 1, <<>>)
    ELSE SplitFrom(s, i + 1, Append(piece, s[i]))

Split(s) == SplitFrom(s, 1, <<>>)

\* [v.strip() for v in pieces if v.strip()]
RECURSIVE StripNonEmpty(_)
StripNonEmpty(pieces) ==
    IF pieces = <<>> THEN <<>>
    ELSE LET v == Strip(Head(pieces))
         IN  (IF v # <<>> THEN <<v>> ELSE <<>>) \o StripNonEmpty(Tail(pieces))

(***************************************************************************)
(* FilterOperator: the operator registry.                                  *)
(***************************************************************************)
FilterOperator ==
    {"eq", "ne", "gt", "gte", "lt", "lte", "contains", "icontains",
     "starts_with", "istarts_with", "ends_with", "iends_with", "in", "nin",
     "is_null", "is_not_null", "between", "not_between"}

\* FilterOperator.default()
DefaultOperator == "eq"

\* FilterOperator.from_string: the member, or ValueError.
from_string_ok(value) == value \in FilterOperator

(***************************************************************************)
(* AllowedFilter.  An object is a record; a raised ValueError is the       *)
(* record [kind |-> "ValueError"].  FilterOperator is a str enum, so an    *)
(* operator passed as a member and one passed as its string both go        *)
(* through from_string.                                                    *)
(***************************************************************************)
ValueError == [kind |-> "ValueError"]

\* [FilterOperator.from_string(op) ... for op in allowed_operators] succeeds
all_from_string_ok(ops) == \A i \in DOMAIN ops : from_string_ok(ops[i])

\* AllowedFilter.__init__ without the check of lines 72-77.
AllowedFilter__init__unchecked(field, default_operator, allowed_operators, alias) ==
    IF ~from_string_ok(default_operator) THEN ValueError
    ELSE IF ~allowed_operators.is_none /\ ~all_from_string_ok(allowed_operators.v)
    THEN ValueError
    ELSE [kind |-> "AllowedFilter",
          field |-> field,
          alias |-> IF alias # None /\ alias # "" THEN alias ELSE field,
          default_operator |-> default_operator,
          allowed_operators |-> IF allowed_operators.is_none
                                THEN <<default_operator>>
                                ELSE allowed_operators.v]

\* AllowedFilter.__init__
AllowedFilter__init__(field, default_operator, allowed_operators, alias) ==
    IF ~from_string_ok(default_operator) THEN ValueError
    ELSE IF ~allowed_operators.is_none /\ ~all_from_string_ok(allowed_operators.v)
    THEN ValueError
    ELSE LET ops == IF allowed_operators.is_none
                    THEN <<default_operator>>
                    ELSE allowed_operators.v
         IN  IF default_operator \notin Range(ops) THEN ValueError
             ELSE [kind |-> "AllowedFilter",
                   field |-> field,
                   alias |-> IF alias # None /\ alias # "" THEN alias ELSE field,
                   default_operator |-> default_operator,
                   allowed_operators |-> ops]

\* AllowedFilter.partial
partial(field, alias, allowed_operators) ==
    AllowedFilter__init__(
        field, "icontains",
        IF allowed_operators.is_none
        THEN Some(<<"icontains", "contains", "starts_with", "istarts_with",
               "ends_with", "iends_with", "eq">>)
        ELSE allowed_operators,
        alias)

\* AllowedFilter.exact
exact(field, alias, allowed_operators) ==
    AllowedFilter__init__(
        field, "eq",
        IF allowed_operators.is_none
        THEN Some(<<"eq", "ne", "in", "nin">>)
        ELSE allowed_operators,
        alias)

\* AllowedFilter.begins_with
begins_with(field, alias, allowed_operators) ==
    AllowedFilter__init__(
        field, "istarts_with",
        IF allowed_operators.is_none
        THEN Some(<<"istarts_with", "starts_with", "icontains", "contains", "eq">>)
        ELSE allowed_operators,
        alias)

\* AllowedFilter.ends_with
ends_with(field, alias, allowed_operators) ==
    AllowedFilter__init__(
        field, "iends_with",
        IF allowed_operators.is_none
        THEN Some(<<"iends_with", "ends_with", "icontains", "contains", "eq">>)
        ELSE allowed_operators,
        alias)

\* AllowedFilter.operator
operator(field, default_operator, allowed_operators, alias) ==
    AllowedFilter__init__(field, default_operator, allowed_operators, alias)

\* AllowedFilter.is_operator_allowed that trusts a string outside the registry.
is_operator_allowed_unregistered(self, op) ==
    ~from_string_ok(op) \/ op \in Range(self.allowed_operators)

\* AllowedFilter.is_operator_allowed
is_operator_allowed(self, op) ==
    IF ~from_string_ok(op) THEN FALSE
    ELSE op \in Range(self.allowed_operators)

\* AllowedFilter.get_default_operator that answers the registry's default.
get_default_operator_global(self) == DefaultOperator

\* AllowedFilter.get_default_operator
get_default_operator(self) == self.default_operator

\* AllowedFilter.get_allowed_operators
get_allowed_operators(self) == self.allowed_operators

(***************************************************************************)
(* RawFilterSchema, FilterSchema and the Python values a resolved filter   *)
(* can carry.                                                              *)
(***************************************************************************)
StrValue(s) == [t |-> "str", s |-> s]
ListValue(l) == [t |-> "list", l |-> l]
BoolValue(b) == [t |-> "bool", b |-> b]

\* RawFilterSchema(alias_or_field=..., operator=..., values=...)
RawFilterSchema(alias_or_field, op, values) ==
    [alias_or_field |-> alias_or_field, operator |-> op, values |-> values]

ValidationError == [kind |-> "ValidationError"]

\* FilterSchema(field=..., operator=..., value=...): validate_operator
\* rejects an operator outside the registry.
FilterSchema(field, op, value) ==
    IF op \notin FilterOperator THEN ValidationError
    ELSE [kind |-> "FilterSchema", field |-> field, operator |-> op, value |-> value]

\* FilterNotAllowedError(filter_name, allowed_filters)
FilterNotAllowedError(filter_name, allowed) ==
    [kind |-> "FilterNotAllowedError",
     filter_name |-> filter_name,
     allowed_filters |-> allowed]

\* FilterOperatorNotAllowedError(filter_name, operator, allowed_operators)
FilterOperatorNotAllowedError(filter_name, op, allowed_operators) ==
    [kind |-> "FilterOperatorNotAllowedError",
     filter_name |-> filter_name,
     operator |-> op,
     allowed_operators |-> allowed_operators]

(***************************************************************************)
(* _normalize_filter_value                                                 *)
(***************************************************************************)
\* ("true", "1", "yes")
TruthyStrings == {<<"t", "r", "u", "e">>, <<"1">>, <<"y", "e", "s">>}

\* The loop of lines 180-186 over a list of raw values.
RECURSIVE expand_values(_)
expand_values(vs) ==
    IF vs = <<>> THEN <<>>
    ELSE LET v == Head(vs)
         IN  (IF HasComma(v) THEN StripNonEmpty(Split(v)) ELSE <<Strip(v)>>)
             \o expand_values(Tail(vs))

\* Lines 157-160 upgrading an explicit "eq" as well.
local_operator_any_eq(values, op, operator_was_explicit) ==
    IF Len(values) > 1 /\ op = DefaultOperator THEN "in" ELSE op

\* The operator as the body of _normalize_filter_value sees it after
\* lines 157-160 (a rebinding of its own parameter).
local_operator(values, op, operator_was_explicit) ==
    IF Len(values) > 1 /\ op = DefaultOperator /\ ~operator_was_explicit
    THEN "in"
    ELSE op

\* _normalize_filter_value that compares the null-check value as typed.
_normalize_filter_value_cased(values, op, operator_was_explicit) ==
    LET lop == local_operator(values, op, operator_was_explicit)
        filter_value == IF Len(values) > 1 THEN ListValue(values)
                        ELSE StrValue(values[1])
    IN  IF lop \in {"is_null", "is_not_null"}
        THEN LET first == IF filter_value.t = "list"
                          THEN filter_value.l[1]
                          ELSE filter_value.s
             IN  BoolValue(first \in TruthyStrings)
        ELSE IF lop = "in"
        THEN IF filter_value.t = "str"
             THEN ListValue(StripNonEmpty(Split(filter_value.s)))
             ELSE ListValue(expand_values(filter_value.l))
        ELSE filter_value

\* _normalize_filter_value
_normalize_filter_value(values, op, operator_was_explicit) ==
    LET lop == local_operator(values, op, operator_was_explicit)
        filter_value == IF Len(values) > 1 THEN ListValue(values)
                        ELSE StrValue(values[1])
    IN  IF lop \in {"is_null", "is_not_null"}
        THEN LET first == IF filter_value.t = "list"
                          THEN (IF filter_value.l # <<>>
                                THEN filter_value.l[1]
                                ELSE <<"f", "a", "l", "s", "e">>)
                          ELSE filter_value.s
             IN  BoolValue(Lower(first) \in TruthyStrings)
        ELSE IF lop = "in"
        THEN IF filter_value.t = "str"
             THEN ListValue(StripNonEmpty(Split(filter_value.s)))
             ELSE ListValue(expand_values(filter_value.l))
        ELSE filter_value

(***************************************************************************)
(* resolve_and_validate_filters.  A dict is its keys in insertion order    *)
(* and its mapping; assigning to a key already present keeps the key's     *)
(* position and replaces the value.                                        *)
(***************************************************************************)
EmptyDict == [keys |-> <<>>, val |-> <<>>]

DictSet(d, k, v) ==
    IF k \in Range(d.keys)
    THEN [keys |-> d.keys,
          val |-> [i \in DOMAIN d.val |-> IF d.keys[i] = k THEN v ELSE d.val[i]]]
    ELSE [keys |-> Append(d.keys, k), val |-> Append(d.val, v)]

DictHas(d, k) == k \in Range(d.keys)

DictGet(d, k) == d.val[CHOOSE i \in DOMAIN d.keys : d.keys[i] = k]

\* Lines 53-57: allowed_filters_by_alias after the loop over the policy.
RECURSIVE by_alias_map(_, _)
by_alias_map(policy, d) ==
    IF policy = <<>> THEN d
    ELSE by_alias_map(Tail(policy), DictSet(d, Head(policy).alias, Head(policy)))

\* Lines 53-57: allowed_filters_by_field after the loop over the policy.
RECURSIVE by_field_map(_, _)
by_field_map(policy, d) ==
    IF policy = <<>> THEN d
    ELSE by_field_map(Tail(policy), DictSet(d, Head(policy).field, Head(policy)))

NotFound == [found |-> FALSE]

\* Lines 70-77 with the two lookups in the other order.
lookup_field_first(by_alias, by_field, alias_or_field) ==
    IF DictHas(by_field, alias_or_field)
    THEN [found |-> TRUE,
          allowed_filter |-> DictGet(by_field, alias_or_field),
          actual_field |-> alias_or_field]
    ELSE IF DictHas(by_alias, alias_or_field)
    THEN [found |-> TRUE,
          allowed_filter |-> DictGet(by_alias, alias_or_field),
          actual_field |-> DictGet(by_alias, alias_or_field).field]
    ELSE NotFound

\* Lines 70-77: the allowed filter and the actual field of a raw key.
lookup(by_alias, by_field, alias_or_field) ==
    IF DictHas(by_alias, alias_or_field)
    THEN [found |-> TRUE,
          allowed_filter |-> DictGet(by_alias, alias_or_field),
          actual_field |-> DictGet(by_alias, alias_or_field).field]
    ELSE IF DictHas(by_field, alias_or_field)
    THEN [found |-> TRUE,
          allowed_filter |-> DictGet(by_field, alias_or_field),
          actual_field |-> alias_or_field]
    ELSE NotFound

\* Line 80: list(allowed_filters_by_alias.keys())
allowed_filter_names(by_alias, by_field) == by_alias.keys

\* Python truthiness of a str | None
Truthy(s) == s # None /\ s # ""

\* Lines 83-109 with the operator becoming "in" when several values come
\* without an explicit operator, as the comment of lines 157-160 says.
resolve_matched_upgrades_to_in(raw_filter, hit) ==
    LET alias_or_field == raw_filter.alias_or_field
        explicit_operator == raw_filter.operator
    IN  IF Truthy(explicit_operator)
           /\ ~is_operator_allowed(hit.allowed_filter, explicit_operator)
        THEN FilterOperatorNotAllowedError(
                 alias_or_field, explicit_operator,
                 get_allowed_operators(hit.allowed_filter))
        ELSE LET operator_str == IF Truthy(explicit_operator)
                                 THEN explicit_operator
                                 ELSE IF Len(raw_filter.values) > 1
                                 THEN "in"
                                 ELSE get_default_operator(hit.allowed_filter)
             IN  FilterSchema(
                     hit.actual_field, operator_str,
                     _normalize_filter_value(raw_filter.values, operator_str,
                                            explicit_operator # None))

\* Lines 83-109: operator, value and FilterSchema of a raw filter matched
\* to hit.allowed_filter; the FilterSchema to append, or the exception raised.
resolve_matched(raw_filter, hit) ==
    LET alias_or_field == raw_filter.alias_or_field
        explicit_operator == raw_filter.operator
    IN  IF Truthy(explicit_operator)
           /\ ~is_operator_allowed(hit.allowed_filter, explicit_operator)
        THEN FilterOperatorNotAllowedError(
                 alias_or_field, explicit_operator,
                 get_allowed_operators(hit.allowed_filter))
        ELSE LET operator_str == IF Truthy(explicit_operator)
                                 THEN explicit_operator
                                 ELSE get_default_operator(hit.allowed_filter)
             IN  FilterSchema(
                     hit.actual_field, operator_str,
                     _normalize_filter_value(raw_filter.values, operator_str,
                                            explicit_operator # None))

\* Lines 125-139: one iteration of the loop of
\* _resolve_filters_without_validation.
resolve_one_without_validation(raw_filter) ==
    LET op == IF Truthy(raw_filter.operator)
              THEN raw_filter.operator
              ELSE DefaultOperator
    IN  FilterSchema(
            raw_filter.alias_or_field, op,
            _normalize_filter_value(raw_filter.values, op,
                                   raw_filter.operator # None))

\* Lines 62-109 letting a key outside the policy through as in the
\* permissive mode.
resolve_one_unknown_passes(raw_filter, by_alias, by_field) ==
    LET hit == lookup(by_alias, by_field, raw_filter.alias_or_field)
    IN  IF ~hit.found
        THEN resolve_one_without_validation(raw_filter)
        ELSE resolve_matched(raw_filter, hit)

\* Lines 62-109: one iteration of the loop under a policy; the FilterSchema
\* to append, or the exception raised.
resolve_one(raw_filter, by_alias, by_field) ==
    LET hit == lookup(by_alias, by_field, raw_filter.alias_or_field)
    IN  IF ~hit.found
        THEN FilterNotAllowedError(raw_filter.alias_or_field,
                                   allowed_filter_names(by_alias, by_field))
        ELSE resolve_matched(raw_filter, hit)

Returned(filters) == [kind |-> "return", filters |-> filters]

\* _resolve_filters_without_validation: the list returned, or the first
\* exception raised.
RECURSIVE _resolve_filters_without_validation(_, _)
_resolve_filters_without_validation(raws, resolved_filters) ==
    IF raws = <<>> THEN Returned(resolved_filters)
    ELSE LET r == resolve_one_without_validation(Head(raws))
         IN  IF r.kind = "FilterSchema"
             THEN _resolve_filters_without_validation(
                      Tail(raws), Append(resolved_filters, r))
             ELSE r

\* Lines 59-111 with line 103 inserting at the front of the list instead
\* of appending.
RECURSIVE resolve_loop_newest_first(_, _, _, _)
resolve_loop_newest_first(raws, by_alias, by_field, validated_filters) ==
    IF raws = <<>> THEN Returned(validated_filters)
    ELSE LET r == resolve_one(Head(raws), by_alias, by_field)
         IN  IF r.kind = "FilterSchema"
             THEN resolve_loop_newest_first(Tail(raws), by_alias, by_field,
                                            <<r>> \o validated_filters)
             ELSE r

\* Lines 59-111: the loop under a policy.
RECURSIVE resolve_loop(_, _, _, _)
resolve_loop(raws, by_alias, by_field, validated_filters) ==
    IF raws = <<>> THEN Returned(validated_filters)
    ELSE LET r == resolve_one(Head(raws), by_alias, by_field)
         IN  IF r.kind = "FilterSchema"
             THEN resolve_loop(Tail(raws), by_alias, by_field,
                               Append(validated_filters, r))
             ELSE r

\* resolve_and_validate_filters with line 49 testing
\* "allowed_filters is None" in place of "not allowed_filters".
resolve_and_validate_filters_none_only(raws, allowed) ==
    IF allowed.is_none
    THEN _resolve_filters_without_validation(raws, <<>>)
    ELSE resolve_loop(raws,
                      by_alias_map(allowed.v, EmptyDict),
                      by_field_map(allowed.v, EmptyDict),
                      <<>>)

\* resolve_and_validate_filters(raw_filters, allowed_filters)
resolve_and_validate_filters(raws, allowed) ==
    IF allowed.is_none \/ allowed.v = <<>>
    THEN _resolve_filters_without_validation(raws, <<>>)
    ELSE resolve_loop(raws,
                      by_alias_map(allowed.v, EmptyDict),
                      by_field_map(allowed.v, EmptyDict),
                      <<>>)

(***************************************************************************)
(* Inputs.                                                                 *)
(***************************************************************************)
NoCall == [kind |-> "none"]

\* Column names and exposed names of the policies.
Fields == {"id", "status"}
Aliases == {"id", "s"}

\* Keys a request can carry: a field name, an alias, a name in no policy.
Keys == {"id", "s", "unknown"}

\* Operators a request can carry: absent, one that some allowed filters
\* permit and others do not, one outside the registry.
RequestOperators == {None, "gt", "bogus"}

\* One raw value, and two for the same key.
RequestValues == {<< <<"1">> >>, << <<"1">>, <<"2">> >>}

RawFilters ==
    {RawFilterSchema(k, op, vs) :
        k \in Keys, op \in RequestOperators, vs \in RequestValues}

Requests == SeqsOf(RawFilters, 0, MaxFilters)

\* The allowed filters a policy is made of, each built by a constructor.
PolicyFilters ==
    {exact(f, a, NoneArg) : f \in Fields, a \in Aliases \cup {None}}
    \cup {operator("status", "gt", Some(<<"gt", "lt">>), a) : a \in Aliases}

\* A policy dict is keyed by alias (validator.py:37), so its values have
\* distinct aliases.
Policies ==
    {p \in SeqsOf(PolicyFilters, 0, MaxPolicy) :
        \A i, j \in DOMAIN p : i # j => p[i].alias # p[j].alias}

PolicyArgs == {NoneArg} \cup {Some(p) : p \in Policies}

(***************************************************************************)
(* The table behind CRUDBase and the requests that work on it.             *)
(***************************************************************************)
\* An identifier, a column value: a Python value with its type.
IntValue(v) == [t |-> "int", v |-> v]
UuidStrValue(v) == [t |-> "uuid_str", v |-> v]

\* A stored row of the model.
Row(id, uuid, name) ==
    [id |-> IntValue(id), uuid |-> UuidStrValue(uuid), name |-> StrValue(<<name>>)]

\* The table before the first request: one row.
InitialStore == {Row("1", "u1", "a")}

\* Requests that can run at the same time, each on a session of its own.
ConcurrentRequests == {1, 2}

IdleRequest == [pc |-> "idle", session |-> <<>>]

(***************************************************************************)
(* Spec: one caller of resolve_and_validate_filters, with and without a    *)
(* policy.                                                                 *)
(***************************************************************************)
Init ==
    /\ pc = "idle"
    /\ raw_filters = <<>>
    /\ allowed_filters = NoneArg
    /\ result = NoCall
    /\ ctor = NoCall
    /\ obj = NoCall
    /\ request = <<>>
    /\ parsed = NoCall
    /\ params = NoCall
    /\ built = NoCall
    /\ write = NoCall
    /\ session = <<>>
    /\ outcome = NoCall
    /\ store = InitialStore
    /\ reqs = [r \in ConcurrentRequests |-> IdleRequest]

\* The call resolve_and_validate_filters(raws, allowed), to its return or raise.
Resolve(raws, allowed) ==
    /\ pc' = "returned"
    /\ raw_filters' = raws
    /\ allowed_filters' = allowed
    /\ result' = resolve_and_validate_filters(raws, allowed)
    /\ UNCHANGED <<ctor_vars, parser_vars, builder_vars, manager_vars,
                 crud_vars>>

\* The caller drops the result; every request starts afresh (spec section 3).
Finish ==
    /\ pc = "returned"
    /\ pc' = "idle"
    /\ raw_filters' = <<>>
    /\ allowed_filters' = NoneArg
    /\ result' = NoCall
    /\ ctor' = NoCall
    /\ obj' = NoCall
    /\ request' = <<>>
    /\ parsed' = NoCall
    /\ params' = NoCall
    /\ built' = NoCall
    /\ write' = NoCall
    /\ session' = <<>>
    /\ outcome' = NoCall
    /\ UNCHANGED crud_vars

ResolveRequest ==
    /\ pc = "idle"
    /\ \E raws \in Requests, allowed \in PolicyArgs : Resolve(raws, allowed)

Next == ResolveRequest \/ Finish

Spec == Init /\ [][Next]_vars

(***************************************************************************)
(* SpecValues: requests of one raw filter whose raw values range over the  *)
(* strings that exercise splitting, trimming and lower-casing.             *)
(***************************************************************************)
Alphabet == {"1", ",", " "}

\* Raw values of particular interest, beside every string over Alphabet.
SampleStrings ==
    {<<"a", ",", "b">>,
     <<"1", ",", " ", "2", ",", "3">>,
     <<"t", "r", "u", "e">>,
     <<"T", "R", "U", "E">>,
     <<"Y", "e", "s">>,
     <<"n", "o">>}

RawStrings == SeqsOf(Alphabet, 0, MaxStrLen) \cup SampleStrings

ValueLists == SeqsOf(RawStrings, 1, MaxValues)

ValueOperators ==
    {None, "eq", "gt", "in", "nin", "is_null", "is_not_null", "bogus"}

\* The operator of the raw filter and the policy it is resolved under:
\* every operator without a policy; under a policy, the operators through
\* which the policy's default or allowed operators reach the normalization.
ValueCalls ==
    {<<op, NoneArg>> : op \in ValueOperators}
    \cup {<<op, Some(<<exact("id", None, NoneArg)>>)>> :
            op \in {None, "in", "nin"}}
    \cup {<<None, Some(<<operator("id", "in", NoneArg, None)>>)>>}
    \cup {<<op, Some(<<operator("id", "is_null",
                                Some(<<"is_null", "is_not_null">>), "id")>>)>> :
            op \in {None, "is_not_null"}}

ResolveValues ==
    /\ pc = "idle"
    /\ \E call \in ValueCalls, vs \in ValueLists :
          Resolve(<<RawFilterSchema("id", call[1], vs)>>, call[2])

NextValues == ResolveValues \/ Finish

SpecValues == Init /\ [][NextValues]_vars

(***************************************************************************)
(* SpecAllowed: a configuration constructing one AllowedFilter, through    *)
(* the constructor or a preset.                                            *)
(***************************************************************************)
CtorOperators ==
    {"eq", "gt", "lt", "icontains", "istarts_with", "iends_with", "bogus"}

OperatorLists ==
    {NoneArg} \cup {Some(l) : l \in SeqsOf(CtorOperators, 0, MaxAllowedOps)}

Presets == {"exact", "partial", "begins_with", "ends_with"}

\* AllowedFilter(field, default_operator, allowed_operators, alias) or
\* AllowedFilter.operator(...) with the same arguments.
Construct(how, field, default_operator, allowed_operators, alias) ==
    /\ pc' = "returned"
    /\ ctor' = [kind |-> how, field |-> field,
                default_operator |-> default_operator,
                allowed_operators |-> allowed_operators, alias |-> alias]
    /\ obj' = IF how = "operator"
              THEN operator(field, default_operator, allowed_operators, alias)
              ELSE AllowedFilter__init__(field, default_operator,
                                      allowed_operators, alias)
    /\ UNCHANGED <<resolver_vars, parser_vars, builder_vars, manager_vars,
                 crud_vars>>

\* AllowedFilter.exact / partial / begins_with / ends_with
ConstructPreset(how, field, alias, allowed_operators) ==
    /\ pc' = "returned"
    /\ ctor' = [kind |-> how, field |-> field,
                allowed_operators |-> allowed_operators, alias |-> alias]
    /\ obj' = CASE how = "exact" -> exact(field, alias, allowed_operators)
                [] how = "partial" -> partial(field, alias, allowed_operators)
                [] how = "begins_with" -> begins_with(field, alias, allowed_operators)
                [] how = "ends_with" -> ends_with(field, alias, allowed_operators)
    /\ UNCHANGED <<resolver_vars, parser_vars, builder_vars, manager_vars,
                 crud_vars>>

ConstructAllowedFilter ==
    /\ pc = "idle"
    /\ \E how \in {"__init__", "operator"}, f \in Fields,
          d \in CtorOperators, ops \in OperatorLists, a \in Aliases \cup {None} :
          Construct(how, f, d, ops, a)

ConstructFromPreset ==
    /\ pc = "idle"
    /\ \E how \in Presets, f \in Fields, ops \in OperatorLists,
          a \in Aliases \cup {None} :
          ConstructPreset(how, f, a, ops)

NextAllowed == ConstructAllowedFilter \/ ConstructFromPreset \/ Finish

SpecAllowed == Init /\ [][NextAllowed]_vars

(***************************************************************************)
(* parse_filter_params (query/filters/parser.py).  The request is the list *)
(* of name=value pairs of its query string, in order, free of percent      *)
(* escapes, so that parse_qs's and unquote's decoding leave names and      *)
(* values as they are.  A name is a sequence of lexemes: the word          *)
(* "filter", the brackets "[" and "]", and other words; a value is a       *)
(* sequence of characters.                                                 *)
(***************************************************************************)
\* The str a run of lexemes spells.
RECURSIVE Join(_)
Join(lexemes) ==
    IF lexemes = <<>> THEN "" ELSE Head(lexemes) \o Join(Tail(lexemes))

\* End of the run [^\]]+ that starts at position i of key: the position of
\* the first "]" at or after i, 0 when there is none.
RECURSIVE FirstClose(_, _)
FirstClose(key, i) ==
    IF i > Len(key) THEN 0
    ELSE IF key[i] = "]" THEN i
    ELSE FirstClose(key, i + 1)

NoMatch == [matched |-> FALSE, group1 |-> None, group3 |-> None]

\* Line 49 without the closing "$": the pattern matches a prefix of the key.
filter_pattern_match_no_end_anchor(key) ==
    IF Len(key) < 4 \/ key[1] # "filter" \/ key[2] # "[" THEN NoMatch
    ELSE LET j == FirstClose(key, 3)
         IN  IF j < 4 THEN NoMatch
             ELSE LET k == IF j + 1 <= Len(key) /\ key[j + 1] = "["
                           THEN FirstClose(key, j + 2)
                           ELSE 0
                  IN  [matched |-> TRUE,
                       group1 |-> Join(SubSeq(key, 3, j - 1)),
                       group3 |-> IF k >= j + 3
                                  THEN Join(SubSeq(key, j + 2, k - 1))
                                  ELSE None]

\* Lines 49 and 55: re.compile(r"^filter\[([^\]]+)\](\[([^\]]+)\])?$").match(key)
filter_pattern_match(key) ==
    IF Len(key) < 4 \/ key[1] # "filter" \/ key[2] # "[" THEN NoMatch
    ELSE LET j == FirstClose(key, 3)
         IN  IF j < 4 THEN NoMatch
             ELSE IF j = Len(key)
             THEN [matched |-> TRUE,
                   group1 |-> Join(SubSeq(key, 3, j - 1)),
                   group3 |-> None]
             ELSE IF key[j + 1] # "[" THEN NoMatch
             ELSE LET k == FirstClose(key, j + 2)
                  IN  IF k < j + 3 \/ k # Len(key) THEN NoMatch
                      ELSE [matched |-> TRUE,
                            group1 |-> Join(SubSeq(key, 3, j - 1)),
                            group3 |-> Join(SubSeq(key, j + 2, k - 1))]

\* d[k].append(v) on a dict of lists, the list created on first use.
DictAppend(d, k, v) ==
    DictSet(d, k, (IF DictHas(d, k) THEN DictGet(d, k) ELSE <<>>) \o <<v>>)

\* Line 44: parse_qs(query_string, keep_blank_values=True), the values of a
\* repeated name collected under its first occurrence.
RECURSIVE parse_qs(_, _)
parse_qs(pairs, d) ==
    IF pairs = <<>> THEN d
    ELSE parse_qs(Tail(pairs), DictAppend(d, Head(pairs).key, Head(pairs).value))

RECURSIVE ExtendGroup(_, _, _)
ExtendGroup(filter_groups, group, values) ==
    IF values = <<>> THEN filter_groups
    ELSE ExtendGroup(DictAppend(filter_groups, group, Head(values)),
                     group, Tail(values))

\* Lines 54-67: the loop that groups the values by (field, operator).
RECURSIVE group_filters(_, _, _)
group_filters(parsed_params, i, filter_groups) ==
    IF i > Len(parsed_params.keys) THEN filter_groups
    ELSE LET match == filter_pattern_match(parsed_params.keys[i])
         IN  IF ~match.matched
             THEN group_filters(parsed_params, i + 1, filter_groups)
             ELSE LET field == match.group1
                      operator_group == match.group3
                      op == IF Truthy(operator_group)
                            THEN operator_group
                            ELSE DefaultOperator
                  IN  group_filters(
                          parsed_params, i + 1,
                          ExtendGroup(filter_groups, <<field, op>>,
                                      parsed_params.val[i]))

\* Lines 70-96: the FilterSchema built from one group, or the exception
\* its construction raises.
build_filter(field, op, values) ==
    LET operator1 == IF Len(values) > 1 /\ op = DefaultOperator
                     THEN "in"
                     ELSE op
        value1 == IF Len(values) > 1
                  THEN ListValue(values)
                  ELSE StrValue(values[1])
        value2 == IF operator1 \in {"is_null", "is_not_null"}
                  THEN BoolValue(/\ value1.t = "str"
                                 /\ Lower(value1.s) \in TruthyStrings)
                  ELSE value1
        value3 == IF operator1 = "in" /\ value2.t = "str"
                  THEN ListValue(StripNonEmpty(Split(value2.s)))
                  ELSE value2
    IN  FilterSchema(field, operator1, value3)

\* Lines 70-98: the loop over the groups; the list returned, or the first
\* exception raised.
RECURSIVE build_filters(_, _, _)
build_filters(filter_groups, i, filters) ==
    IF i > Len(filter_groups.keys) THEN Returned(filters)
    ELSE LET f == build_filter(filter_groups.keys[i][1],
                               filter_groups.keys[i][2],
                               filter_groups.val[i])
         IN  IF f.kind = "FilterSchema"
             THEN build_filters(filter_groups, i + 1, Append(filters, f))
             ELSE f

\* parse_filter_params(request)
parse_filter_params(pairs) ==
    build_filters(
        group_filters(parse_qs(pairs, EmptyDict), 1, EmptyDict), 1, <<>>)

(***************************************************************************)
(* SpecParser: one request parsed.                                         *)
(***************************************************************************)
\* filter[<name>] and filter[<name>][<op>]
FilterKey(name) == <<"filter", "[", name, "]">>
FilterOpKey(name, op) == <<"filter", "[", name, "]", "[", op, "]">>

\* Names inside the grammar: with and without operator, a registered
\* operator and one that is not, the operators the parser treats specially.
GrammarKeys ==
    {FilterKey("name"), FilterKey("id"),
     FilterOpKey("name", "eq"), FilterOpKey("name", "gt"),
     FilterOpKey("name", "bogus"), FilterOpKey("id", "in"),
     FilterOpKey("id", "is_null")}

\* Names outside it: sort, filter, filter[], filter[a][b][c], xfilter[a],
\* filter[name]x, filter[name][], filter[name, Filter[name].
OtherKeys ==
    {<<"sort">>, <<"filter">>, <<"filter", "[", "]">>,
     <<"filter", "[", "a", "]", "[", "b", "]", "[", "c", "]">>,
     <<"x", "filter", "[", "a", "]">>,
     <<"filter", "[", "name", "]", "x">>,
     <<"filter", "[", "name", "]", "[", "]">>,
     <<"filter", "[", "name">>,
     <<"Filter", "[", "name", "]">>}

ParamValues == {<<"a">>, <<"1", ",", "2">>, <<"Y", "e", "s">>}

QueryPairs ==
    {[key |-> k, value |-> v] : k \in GrammarKeys \cup OtherKeys, v \in ParamValues}

QueryStrings == SeqsOf(QueryPairs, 0, MaxParams)

\* The call parse_filter_params(request), to its return or raise.
Parse(pairs) ==
    /\ pc' = "returned"
    /\ request' = pairs
    /\ parsed' = parse_filter_params(pairs)
    /\ UNCHANGED <<resolver_vars, ctor_vars, builder_vars, manager_vars,
                 crud_vars>>

ParseRequest ==
    /\ pc = "idle"
    /\ \E pairs \in QueryStrings : Parse(pairs)

NextParser == ParseRequest \/ Finish

SpecParser == Init /\ [][NextParser]_vars

(***************************************************************************)
(* QueryBuilder and AsyncQueryBuilder (query/builder.py).  The two classes *)
(* have the same bodies, one on session.query(model), the other on         *)
(* select(model).  A query is the sequence of the generative calls made on *)
(* that starting object; a predicate, an ordering clause and a loader      *)
(* option are records of what they were built from.  Filter names, sort    *)
(* fields and field lists name columns or nothing; what SQLAlchemy does    *)
(* with a relationship attribute in their place is outside the model.      *)
(***************************************************************************)
\* query/schema.py: FilterSchema(field, operator="eq", value), unvalidated.
query_FilterSchema(field, op, value) ==
    [field |-> field, operator |-> op, value |-> value]

\* query/schema.py: QueryParams(filters, sort, include, fields)
QueryParams(filters, sort, include, fields) ==
    [filters |-> filters, sort |-> sort, include |-> include, fields |-> fields]

\* The mapped class the builder is constructed with.
ModelColumns == {"id", "uuid", "name", "description", "created_at"}
ModelRelationships == {"tags", "owner"}
ModelAttributes == ModelColumns \cup ModelRelationships

\* hasattr(self.model, name)
hasattr_model(name) == name \in ModelAttributes

\* getattr(self.model, name, None)
getattr_model(name) == IF hasattr_model(name) THEN name ELSE None

\* The keys of OPERATOR_MAP.
OPERATOR_MAP ==
    {"eq", "ne", "lt", "lte", "gt", "gte", "like", "ilike", "in"}

\* OPERATOR_MAP[op](col, val): the predicate; "in" wraps a value that is
\* not a list into a list of one.
OPERATOR_MAP_call(op, col, val) ==
    [column |-> col,
     test |-> op,
     value |-> IF op = "in" /\ val.t # "list"
               THEN ListValue(<<val.s>>)
               ELSE val]

\* One generative call on the query or statement.
QueryCall(method, args) == [method |-> method, args |-> args]

\* apply_filters without the test of lines 33-34: a filter on a name the
\* model lacks is applied to the missing attribute.
RECURSIVE apply_filters_no_column_check(_, _)
apply_filters_no_column_check(query, filters) ==
    IF filters = <<>> THEN query
    ELSE LET f == Head(filters)
             column == getattr_model(f.field)
         IN  IF f.operator \notin OPERATOR_MAP
             THEN apply_filters_no_column_check(query, Tail(filters))
             ELSE apply_filters_no_column_check(
                      Append(query,
                             QueryCall("filter",
                                       OPERATOR_MAP_call(f.operator, column, f.value))),
                      Tail(filters))

\* apply_filters
RECURSIVE apply_filters(_, _)
apply_filters(query, filters) ==
    IF filters = <<>> THEN query
    ELSE LET f == Head(filters)
             column == getattr_model(f.field)
         IN  IF column = None
             THEN apply_filters(query, Tail(filters))
             ELSE IF f.operator \notin OPERATOR_MAP
             THEN apply_filters(query, Tail(filters))
             ELSE apply_filters(
                      Append(query,
                             QueryCall("filter",
                                       OPERATOR_MAP_call(f.operator, column, f.value))),
                      Tail(filters))

\* s.startswith("-")
startswith_dash(s) == s # <<>> /\ Head(s) = "-"

\* The loop of apply_sort: the list order_by.
RECURSIVE sort_clauses(_, _)
sort_clauses(sort, order_by) ==
    IF sort = <<>> THEN order_by
    ELSE LET s == Head(sort)
             desc == startswith_dash(s)
             field == Join(IF desc THEN Tail(s) ELSE s)
             column == getattr_model(field)
         IN  IF column = None
             THEN sort_clauses(Tail(sort), order_by)
             ELSE sort_clauses(Tail(sort),
                               Append(order_by, [column |-> column, desc |-> desc]))

\* The loop of apply_sort looking up the token as written, the "-" of a
\* descending token included.
RECURSIVE sort_clauses_dash_kept(_, _)
sort_clauses_dash_kept(sort, order_by) ==
    IF sort = <<>> THEN order_by
    ELSE LET s == Head(sort)
             desc == startswith_dash(s)
             column == getattr_model(Join(s))
         IN  IF column = None
             THEN sort_clauses_dash_kept(Tail(sort), order_by)
             ELSE sort_clauses_dash_kept(
                      Tail(sort),
                      Append(order_by, [column |-> column, desc |-> desc]))

\* apply_sort with that loop.
apply_sort_dash_kept(query, sort) ==
    LET order_by == sort_clauses_dash_kept(sort, <<>>)
    IN  IF order_by # <<>>
        THEN Append(query, QueryCall("order_by", order_by))
        ELSE query

\* apply_sort
apply_sort(query, sort) ==
    LET order_by == sort_clauses(sort, <<>>)
    IN  IF order_by # <<>>
        THEN Append(query, QueryCall("order_by", order_by))
        ELSE query

\* [getattr(self.model, f) for f in fields if hasattr(self.model, f)]
RECURSIVE existing_columns(_)
existing_columns(fields) ==
    IF fields = <<>> THEN <<>>
    ELSE (IF hasattr_model(Head(fields))
          THEN <<getattr_model(Head(fields))>>
          ELSE <<>>) \o existing_columns(Tail(fields))

\* apply_fields restricting the load whenever a field list is given, also
\* when none of its names exists.
apply_fields_always_restricts(query, fields) ==
    IF fields = <<>> THEN query
    ELSE Append(query,
                QueryCall("options",
                          <<[option |-> "load_only",
                             columns |-> existing_columns(fields)]>>))

\* apply_fields
apply_fields(query, fields) ==
    IF fields = <<>> THEN query
    ELSE LET columns == existing_columns(fields)
         IN  IF columns # <<>>
             THEN Append(query,
                         QueryCall("options",
                                   <<[option |-> "load_only",
                                      columns |-> columns]>>))
             ELSE query

\* The loop of apply_includes: the list options.
RECURSIVE include_options(_)
include_options(includes) ==
    IF includes = <<>> THEN <<>>
    ELSE (IF Head(includes) \in ModelRelationships
          THEN <<[option |-> "selectinload",
                  relationship |-> getattr_model(Head(includes))]>>
          ELSE <<>>) \o include_options(Tail(includes))

\* apply_includes
apply_includes(query, includes) ==
    IF includes = <<>> THEN query
    ELSE LET options == include_options(includes)
         IN  IF options # <<>>
             THEN Append(query, QueryCall("options", options))
             ELSE query

\* apply(params), on the fresh query or statement of __init__.
apply(query_params) ==
    apply_includes(
        apply_fields(
            apply_sort(
                apply_filters(<<>>, query_params.filters),
                query_params.sort),
            query_params.fields),
        query_params.include)

(***************************************************************************)
(* SpecBuilder: one query built from one QueryParams.                      *)
(***************************************************************************)
Builders == {"QueryBuilder", "AsyncQueryBuilder"}

\* A value the builder passes on as it is.
Word(w) == StrValue(<<w>>)

\* Operators with their values: comparison, pattern, membership with a
\* str and with a list, one outside every map.
BuilderOperatorValues ==
    {<<"eq", Word("Tech")>>, <<"gt", Word("1")>>,
     <<"icontains", Word("innov")>>, <<"starts_with", Word("T")>>,
     <<"in", Word("1")>>, <<"in", ListValue(<< <<"1">>, <<"2">> >>)>>,
     <<"bogus", Word("x")>>}

BuilderFilterFields == {"name", "description", "unknown"}

BuilderFilters ==
    {query_FilterSchema(f, ov[1], ov[2]) :
        f \in BuilderFilterFields, ov \in BuilderOperatorValues}

\* Sort tokens: ascending and descending, on columns and on an unknown
\* name, a bare "-", a doubled "-".
SortTokens ==
    {<<"name">>, <<"-", "name">>, <<"-", "created_at">>, <<"unknown">>,
     <<"-", "unknown">>, <<"-">>, <<"-", "-", "name">>}

FieldNames == {"name", "created_at", "unknown", "other"}
IncludeNames == {"tags", "owner", "name", "unknown"}

\* filter[name]=Tech&filter[description][icontains]=innov&sort=-created_at
ScenarioFilters ==
    <<query_FilterSchema("name", "eq", Word("Tech")),
      query_FilterSchema("description", "icontains", Word("innov"))>>
ScenarioSort == << <<"-", "created_at">> >>

\* builder.apply(params), for either builder class.
Build(cls, query_params) ==
    /\ pc' = "returned"
    /\ params' = query_params
    /\ built' = [builder |-> cls, calls |-> apply(query_params)]
    /\ UNCHANGED <<resolver_vars, ctor_vars, parser_vars, manager_vars,
                 crud_vars>>

BuildFilters ==
    /\ pc = "idle"
    /\ \E cls \in Builders, fs \in SeqsOf(BuilderFilters, 0, MaxBuild),
          so \in {<<>>, ScenarioSort} :
          Build(cls, QueryParams(fs, so, <<>>, <<>>))

BuildSort ==
    /\ pc = "idle"
    /\ \E cls \in Builders, so \in SeqsOf(SortTokens, 0, MaxBuild),
          fs \in {<<>>, ScenarioFilters} :
          Build(cls, QueryParams(fs, so, <<>>, <<>>))

BuildFields ==
    /\ pc = "idle"
    /\ \E cls \in Builders, fl \in SeqsOf(FieldNames, 0, MaxBuild),
          inc \in {<<>>, <<"tags">>} :
          Build(cls, QueryParams(<<>>, <<>>, inc, fl))

BuildIncludes ==
    /\ pc = "idle"
    /\ \E cls \in Builders, inc \in SeqsOf(IncludeNames, 0, MaxBuild),
          fl \in {<<>>, <<"name">>}, fs \in {<<>>, ScenarioFilters},
          so \in {<<>>, ScenarioSort, << <<"unknown">> >>} :
          Build(cls, QueryParams(fs, so, inc, fl))

NextBuilder == BuildFilters \/ BuildSort \/ BuildFields \/ BuildIncludes \/ Finish

SpecBuilder == Init /\ [][NextBuilder]_vars

(***************************************************************************)
(* SyncCRUDManager and AsyncCRUDManager (crud/manager): the write calls.   *)
(* Each runs its session calls inside TransactionSync or TransactionAsync  *)
(* (database/context.py), the scope that commits when its body completes   *)
(* and rolls back and re-raises when its body raises.  The session is the  *)
(* sequence of the calls it has received; any call of the body can raise.  *)
(***************************************************************************)
Strategies == {"SyncCRUDManager", "AsyncCRUDManager"}
WriteOperations == {"create", "update", "delete"}
ReadOperations == {"list", "get"}
SessionTypes == {"Session", "AsyncSession"}

\* Statements handed to list and get, and the rows a statement can select.
Statements == {"select1", "select2"}
QueryResults == {<<>>, <<"obj1">>, <<"obj1", "obj2">>}
Entities == {"obj1", "obj2"}

\* What a session call can raise.
SessionErrors == {"IntegrityError", "OperationalError"}

\* The check of the session's type left out: every session is accepted.
session_type_ok_any(strategy, session_type) == TRUE

\* isinstance(session, Session) for the sync manager, _validate_session
\* for the async one.
session_type_ok(strategy, session_type) ==
    IF strategy = "SyncCRUDManager"
    THEN session_type = "Session"
    ELSE session_type = "AsyncSession"

\* The session calls of the body of a write, in order:
\* _create_sync / create, _update_sync / update, _delete_sync / delete,
\* with _flush_and_refresh inlined.
write_body(op) ==
    CASE op = "create" -> <<"add", "flush", "refresh">>
      [] op = "update" -> <<"flush", "refresh">>
      [] op = "delete" -> <<"delete">>

\* The scope opened with commit=False.
transaction_scope_no_commit(strategy, op) ==
    [scope |-> IF strategy = "SyncCRUDManager"
               THEN "TransactionSync"
               ELSE "TransactionAsync",
     commit |-> FALSE]

\* with TransactionSync(session, commit=True) /
\* async with TransactionAsync(session, commit=True)
transaction_scope(strategy, op) ==
    [scope |-> IF strategy = "SyncCRUDManager"
               THEN "TransactionSync"
               ELSE "TransactionAsync",
     commit |-> TRUE]

\* manager.create / update / delete (session, obj) up to the entry into
\* the transaction scope, or to the TypeError for a session of the other
\* kind.
StartWrite(strategy, op, session_type, entity) ==
    /\ write' = [strategy |-> strategy, op |-> op, obj |-> entity,
                 session_type |-> session_type,
                 transaction |-> transaction_scope(strategy, op),
                 remaining |-> write_body(op),
                 offloaded |-> /\ strategy = "SyncCRUDManager"
                               /\ session_type_ok(strategy, session_type),
                 exc |-> None]
    /\ session' = <<>>
    /\ IF session_type_ok(strategy, session_type)
       THEN pc' = "in_transaction" /\ outcome' = NoCall
       ELSE /\ pc' = "returned"
            /\ outcome' = [kind |-> "raise", exc |-> "TypeError"]
    /\ UNCHANGED <<resolver_vars, ctor_vars, parser_vars, builder_vars,
                 crud_vars>>

CallWrite ==
    /\ pc = "idle"
    /\ \E strategy \in Strategies, op \in WriteOperations,
          session_type \in SessionTypes, entity \in Entities :
          StartWrite(strategy, op, session_type, entity)

\* manager.list / get (session, query) up to the execution of the query
\* (offloaded to a worker thread by the sync manager), or to the TypeError
\* for a session of the other kind.  Reads open no transaction scope.
StartRead(strategy, op, session_type, query) ==
    /\ write' = [strategy |-> strategy, op |-> op, obj |-> query,
                 session_type |-> session_type,
                 transaction |-> [scope |-> None, commit |-> FALSE],
                 remaining |-> <<"execute">>,
                 offloaded |-> /\ strategy = "SyncCRUDManager"
                               /\ session_type_ok(strategy, session_type),
                 exc |-> None]
    /\ session' = <<>>
    /\ IF session_type_ok(strategy, session_type)
       THEN pc' = "in_read" /\ outcome' = NoCall
       ELSE /\ pc' = "returned"
            /\ outcome' = [kind |-> "raise", exc |-> "TypeError"]
    /\ UNCHANGED <<resolver_vars, ctor_vars, parser_vars, builder_vars,
                 crud_vars>>

CallRead ==
    /\ pc = "idle"
    /\ \E strategy \in Strategies, op \in ReadOperations,
          session_type \in SessionTypes, query \in Statements :
          StartRead(strategy, op, session_type, query)

\* session.execute(query) returns and the manager returns its rows, all of
\* them for list, the one row or None for get.
ExecuteReturns ==
    /\ pc = "in_read"
    /\ session' = Append(session, "execute")
    /\ \E rows \in QueryResults :
          /\ write.op = "get" => Len(rows) <= 1
          /\ outcome' = [kind |-> "return",
                         value |-> IF write.op = "list" THEN rows
                                   ELSE IF rows = <<>> THEN None
                                   ELSE rows[1]]
    /\ write' = [write EXCEPT !.remaining = <<>>]
    /\ pc' = "returned"
    /\ UNCHANGED <<resolver_vars, ctor_vars, parser_vars, builder_vars,
                 crud_vars>>

\* session.execute(query), or scalar_one_or_none on several rows, raises
\* and the exception leaves the manager.
ExecuteRaises ==
    /\ pc = "in_read"
    /\ session' = Append(session, "execute")
    /\ \E e \in SessionErrors :
          /\ write' = [write EXCEPT !.exc = e]
          /\ outcome' = [kind |-> "raise", exc |-> e]
    /\ pc' = "returned"
    /\ UNCHANGED <<resolver_vars, ctor_vars, parser_vars, builder_vars,
                 crud_vars>>

\* The next session call of the body returns.
SessionCallReturns ==
    /\ pc = "in_transaction"
    /\ write.remaining # <<>>
    /\ session' = Append(session, Head(write.remaining))
    /\ write' = [write EXCEPT !.remaining = Tail(@)]
    /\ UNCHANGED <<pc, outcome, resolver_vars, ctor_vars, parser_vars, builder_vars,
                 crud_vars>>

\* The next session call of the body raises.
SessionCallRaises ==
    /\ pc = "in_transaction"
    /\ write.remaining # <<>>
    /\ \E e \in SessionErrors :
          /\ session' = Append(session, Head(write.remaining))
          /\ write' = [write EXCEPT !.exc = e]
          /\ pc' = "raising"
    /\ UNCHANGED <<outcome, resolver_vars, ctor_vars, parser_vars, builder_vars,
                 crud_vars>>

\* The body has completed: the scope exits, committing when it was opened
\* with commit=True.
ExitCommit ==
    /\ pc = "in_transaction"
    /\ write.remaining = <<>>
    /\ session' = IF write.transaction.commit
                  THEN Append(session, "commit")
                  ELSE session
    /\ pc' = "committed"
    /\ UNCHANGED <<write, outcome, resolver_vars, ctor_vars, parser_vars, builder_vars,
                 crud_vars>>

\* return obj, out of the scope and out of the manager.
ReturnObj ==
    /\ pc = "committed"
    /\ outcome' = [kind |-> "return", value |-> write.obj]
    /\ pc' = "returned"
    /\ UNCHANGED <<write, session, resolver_vars, ctor_vars, parser_vars, builder_vars,
                 crud_vars>>

\* The body has raised: the scope exits, rolling back.
ExitRollback ==
    /\ pc = "raising"
    /\ session' = Append(session, "rollback")
    /\ pc' = "rolled_back"
    /\ UNCHANGED <<write, outcome, resolver_vars, ctor_vars, parser_vars, builder_vars,
                 crud_vars>>

\* The exception leaves the scope and the manager.
Propagate ==
    /\ pc = "rolled_back"
    /\ outcome' = [kind |-> "raise", exc |-> write.exc]
    /\ pc' = "returned"
    /\ UNCHANGED <<write, session, resolver_vars, ctor_vars, parser_vars, builder_vars,
                 crud_vars>>

NextManager ==
    \/ CallWrite
    \/ CallRead
    \/ ExecuteReturns
    \/ ExecuteRaises
    \/ SessionCallReturns
    \/ SessionCallRaises
    \/ ExitCommit
    \/ ReturnObj
    \/ ExitRollback
    \/ Propagate
    \/ Finish

SpecManager == Init /\ [][NextManager]_vars

(***************************************************************************)
(* SpecConfig: a QueryBuilderConfig is constructed and the raw filters of  *)
(* a request are resolved under it, as QueryParser.__call__ does with its  *)
(* config.                                                                 *)
(***************************************************************************)
\* QueryBuilderConfig.__init__(allowed_filters, ignore_invalid_filters);
\* _filter_map is kept by its keys.
QueryBuilderConfig__init__(allowed, ignore_invalid_filters) ==
    LET allowed_list == IF allowed.is_none THEN <<>> ELSE allowed.v
    IN  [allowed_filters |-> allowed_list,
         ignore_invalid_filters |-> ignore_invalid_filters,
         _filter_map |-> {allowed_list[i].field : i \in DOMAIN allowed_list}
                         \cup {allowed_list[i].alias : i \in DOMAIN allowed_list}]

\* config.is_filter_allowed(field_or_alias)
is_filter_allowed(self, field_or_alias) ==
    IF self.allowed_filters = <<>> THEN TRUE
    ELSE field_or_alias \in self._filter_map

\* The construction of the config, then lines 46-54 of QueryParser.__call__
\* on the request's raw filters, to the return or raise.
ResolveUnderConfig(allowed, ignore_invalid_filters, raws) ==
    LET config == QueryBuilderConfig__init__(allowed, ignore_invalid_filters)
        passed == IF config.allowed_filters # <<>>
                  THEN Some(config.allowed_filters)
                  ELSE NoneArg
    IN  /\ ctor' = [cls |-> "QueryBuilderConfig",
                    allowed_filters |-> allowed,
                    ignore_invalid_filters |-> ignore_invalid_filters]
        /\ obj' = config
        /\ raw_filters' = raws
        /\ allowed_filters' = passed
        /\ result' = resolve_and_validate_filters(raws, passed)
        /\ pc' = "returned"
        /\ UNCHANGED <<parser_vars, builder_vars, manager_vars, crud_vars>>

ConfiguredRequest ==
    /\ pc = "idle"
    /\ \E allowed \in PolicyArgs, ignore_invalid_filters \in BOOLEAN,
          raws \in Requests :
          ResolveUnderConfig(allowed, ignore_invalid_filters, raws)

NextConfig == ConfiguredRequest \/ Finish

SpecConfig == Init /\ [][NextConfig]_vars

(***************************************************************************)
(* CRUDBase (crud/base.py) over either manager.  Each request runs one     *)
(* CRUDBase call on a session of its own, of the manager's type; the calls *)
(* of concurrent requests interleave at every session call.  Rows reach    *)
(* the table, and leave it, when the request's transaction commits.        *)
(* NotFoundError and ValidationError are the records of the arguments      *)
(* they are raised with.                                                   *)
(***************************************************************************)
\* The mapped class: its __name__, the column names of its primary key,
\* hasattr(model, "uuid").
CrudModel(name, primary_key, has_uuid) ==
    [name |-> name, primary_key |-> primary_key, has_uuid |-> has_uuid]

\* isinstance(identifier, UUID), or a str of 36 characters with 4 dashes.
is_uuid_like(identifier) == identifier.t \in {"uuid", "uuid_str"}

\* _get_primary_key_field(identifier); a mapped class has a primary key,
\* so that lines 84-90 are never reached.
_get_primary_key_field(model, identifier) ==
    IF is_uuid_like(identifier) /\ model.has_uuid THEN "uuid"
    ELSE model.primary_key[1]

\* Lines 110-124 of get with the filter on the identifier put after the
\* caller's filters.
get_query_params_pk_last(model, id, query_params) ==
    LET pk_field == _get_primary_key_field(model, id)
        filters == <<query_FilterSchema(pk_field, "eq", id)>>
    IN  IF ~query_params.is_none
        THEN QueryParams(query_params.v.filters \o filters,
                         query_params.v.sort,
                         query_params.v.include,
                         query_params.v.fields)
        ELSE QueryParams(filters, <<>>, <<>>, <<>>)

\* Lines 110-124 of get: the QueryParams handed to _build_query.
get_query_params(model, id, query_params) ==
    LET pk_field == _get_primary_key_field(model, id)
        filters == <<query_FilterSchema(pk_field, "eq", id)>>
    IN  IF ~query_params.is_none
        THEN QueryParams(filters \o query_params.v.filters,
                         query_params.v.sort,
                         query_params.v.include,
                         query_params.v.fields)
        ELSE QueryParams(filters, <<>>, <<>>, <<>>)

\* _build_query(query_params)
_build_query(query_params) == apply(query_params)

\* A row satisfies a predicate of the statement; the requests compare for
\* equality only.
RowMatches(row, predicate) ==
    predicate.test = "eq" =>
        /\ predicate.column \in DOMAIN row
        /\ row[predicate.column] = predicate.value

\* session.execute(query): the rows of the table the statement selects.
execute(table, query) ==
    {row \in table :
        \A i \in DOMAIN query :
            query[i].method = "filter" => RowMatches(row, query[i].args)}

NotFoundError(model_name, id) ==
    [kind |-> "NotFoundError", model_name |-> model_name, id |-> id]

\* ValidationError(f"Failed to create {model_name}: ...") and
\* ValidationError(f"Failed to update object: ...")
CrudValidationError(message, model_name) ==
    [kind |-> "ValidationError", message |-> message, model_name |-> model_name]

\* Lines 147-157 of create handing on what the caller passed, instantiated
\* or not.
create_obj_unchecked(model, obj_in) ==
    [kind |-> "obj", obj |-> obj_in.row]

\* Lines 147-157 of create: the entity to hand to the manager, or the
\* ValidationError for a mapping the model's constructor rejects.
create_obj(model, obj_in) ==
    IF obj_in.t = "dict"
    THEN IF obj_in.constructor_raises
         THEN CrudValidationError("Failed to create", model.name)
         ELSE [kind |-> "obj", obj |-> obj_in.row]
    ELSE [kind |-> "obj", obj |-> obj_in.row]

\* Lines 189-202 of update: db_obj with the attributes of obj_in it has
\* (for an instance: its public attributes that are not None), or the
\* ValidationError when setattr raises.
update_obj(db_obj, obj_in) ==
    LET assigned == /\ obj_in.key \in DOMAIN db_obj
                    /\ ~(obj_in.t = "instance" /\ obj_in.value.is_none)
    IN  IF assigned /\ obj_in.setattr_raises
        THEN CrudValidationError("Failed to update object", None)
        ELSE [kind |-> "obj",
              obj |-> IF assigned
                      THEN [db_obj EXCEPT ![obj_in.key] = obj_in.value.v]
                      ELSE db_obj]

\* The session the manager works on: the one its caller passed.
session_of_shared(r) == 1

session_of(r) == r

\* What the commit of a write does to the table.
committed_table(table, op, entity) ==
    CASE op = "create" -> table \cup {entity}
      [] op = "update" -> {IF row.id = entity.id THEN entity ELSE row : row \in table}
      [] op = "delete" -> {row \in table : row.id # entity.id}

\* Everything but the table and the requests.
other_vars ==
    <<pc, resolver_vars, ctor_vars, parser_vars, builder_vars, manager_vars>>

\* A request in flight: the CRUDBase call, its arguments and its locals,
\* the calls its session has received, and what it returned or raised.
CrudRequest(op, strategy, model, id, obj_in, query_params) ==
    [pc |-> "called", op |-> op, strategy |-> strategy, model |-> model,
     id |-> id, obj_in |-> obj_in, query_params |-> query_params,
     passed |-> NoCall, query |-> <<>>, rows |-> NoneArg, db_obj |-> NoneArg,
     entity |-> NoCall, manager_calls |-> <<>>, remaining |-> <<>>,
     exc |-> NoCall, session |-> <<>>, outcome |-> NoCall]

\* get(session, id, query_params) up to manager.get(session, query); update
\* and delete start with get(session, id).
StartLookup(r, op, strategy, model, id, obj_in, query_params) ==
    LET passed == get_query_params(model, id, query_params)
    IN  /\ reqs[r].pc = "idle"
        /\ reqs' = [reqs EXCEPT ![r] =
               [CrudRequest(op, strategy, model, id, obj_in, query_params)
                   EXCEPT !.pc = "executing",
                          !.passed = passed,
                          !.query = _build_query(passed),
                          !.manager_calls = <<"get">>]]
        /\ UNCHANGED <<store, other_vars>>

\* create(session, obj_in) up to manager.create(session, obj), or to the
\* ValidationError.
StartCreate(r, strategy, model, obj_in) ==
    LET made == create_obj(model, obj_in)
        call == CrudRequest("create", strategy, model, NoCall, obj_in, NoneArg)
    IN  /\ reqs[r].pc = "idle"
        /\ reqs' = [reqs EXCEPT ![r] =
               IF made.kind = "obj"
               THEN [call EXCEPT !.pc = "in_transaction",
                                 !.entity = made.obj,
                                 !.manager_calls = <<"create">>,
                                 !.remaining = write_body("create")]
               ELSE [call EXCEPT !.pc = "returned",
                                 !.outcome = [kind |-> "raise", exc |-> made]]]
        /\ UNCHANGED <<store, other_vars>>

\* The session's errors, as the manager's caller sees them.
SessionError(e) == [kind |-> e]

\* after_lookup with update and delete going on whether or not get
\* returned a row.
after_lookup_unchecked(q, rows) ==
    LET found == IF rows = {} THEN NoneArg ELSE Some(CHOOSE row \in rows : TRUE)
        db_obj == IF rows = {} THEN Some(Row("1", "u1", "a")) ELSE found
    IN  IF Cardinality(rows) > 1
        THEN [q EXCEPT !.pc = "returned",
                       !.rows = Some(rows),
                       !.outcome = [kind |-> "raise",
                                    exc |-> SessionError("MultipleResultsFound")]]
        ELSE IF q.op = "get"
        THEN [q EXCEPT !.pc = "returned",
                       !.rows = Some(rows),
                       !.db_obj = found,
                       !.outcome = [kind |-> "return", value |-> found]]
        ELSE IF q.op = "update"
        THEN [q EXCEPT !.pc = "assigning", !.rows = Some(rows), !.db_obj = db_obj]
        ELSE [q EXCEPT !.pc = "in_transaction",
                       !.rows = Some(rows),
                       !.db_obj = db_obj,
                       !.entity = db_obj.v,
                       !.manager_calls = Append(@, "delete"),
                       !.remaining = write_body("delete")]

\* after_lookup with get raising NotFoundError as update and delete do.
after_lookup_get_raises(q, rows) ==
    LET found == IF rows = {} THEN NoneArg ELSE Some(CHOOSE row \in rows : TRUE)
    IN  IF Cardinality(rows) > 1
        THEN [q EXCEPT !.pc = "returned",
                       !.rows = Some(rows),
                       !.outcome = [kind |-> "raise",
                                    exc |-> SessionError("MultipleResultsFound")]]
        ELSE IF found.is_none
        THEN [q EXCEPT !.pc = "returned",
                       !.rows = Some(rows),
                       !.outcome = [kind |-> "raise",
                                    exc |-> NotFoundError(q.model.name, q.id)]]
        ELSE IF q.op = "get"
        THEN [q EXCEPT !.pc = "returned",
                       !.rows = Some(rows),
                       !.db_obj = found,
                       !.outcome = [kind |-> "return", value |-> found]]
        ELSE IF q.op = "update"
        THEN [q EXCEPT !.pc = "assigning", !.rows = Some(rows), !.db_obj = found]
        ELSE [q EXCEPT !.pc = "in_transaction",
                       !.rows = Some(rows),
                       !.db_obj = found,
                       !.entity = found.v,
                       !.manager_calls = Append(@, "delete"),
                       !.remaining = write_body("delete")]

\* The request after session.execute(query) returned rows: manager.get
\* takes scalar_one_or_none(); get returns the row or None; update and
\* delete raise NotFoundError on None and go on with the row otherwise.
after_lookup(q, rows) ==
    LET found == IF rows = {} THEN NoneArg ELSE Some(CHOOSE row \in rows : TRUE)
    IN  IF Cardinality(rows) > 1
        THEN [q EXCEPT !.pc = "returned",
                       !.rows = Some(rows),
                       !.outcome = [kind |-> "raise",
                                    exc |-> SessionError("MultipleResultsFound")]]
        ELSE IF q.op = "get"
        THEN [q EXCEPT !.pc = "returned",
                       !.rows = Some(rows),
                       !.db_obj = found,
                       !.outcome = [kind |-> "return", value |-> found]]
        ELSE IF found.is_none
        THEN [q EXCEPT !.pc = "returned",
                       !.rows = Some(rows),
                       !.outcome = [kind |-> "raise",
                                    exc |-> NotFoundError(q.model.name, q.id)]]
        ELSE IF q.op = "update"
        THEN [q EXCEPT !.pc = "assigning", !.rows = Some(rows), !.db_obj = found]
        ELSE [q EXCEPT !.pc = "in_transaction",
                       !.rows = Some(rows),
                       !.db_obj = found,
                       !.entity = found.v,
                       !.manager_calls = Append(@, "delete"),
                       !.remaining = write_body("delete")]

\* manager.get: session.execute(query) returns.
LookupReturns(r) ==
    /\ reqs[r].pc = "executing"
    /\ reqs' = [[reqs EXCEPT ![session_of(r)].session = Append(@, "execute")]
                   EXCEPT ![r] = after_lookup(@, execute(store, @.query))]
    /\ UNCHANGED <<store, other_vars>>

\* manager.get: session.execute(query) raises and the exception leaves
\* get, and update or delete with it.
LookupRaises(r) ==
    /\ reqs[r].pc = "executing"
    /\ \E e \in SessionErrors :
          reqs' = [[reqs EXCEPT ![session_of(r)].session = Append(@, "execute")]
                      EXCEPT ![r].pc = "returned",
                             ![r].outcome = [kind |-> "raise",
                                             exc |-> SessionError(e)]]
    /\ UNCHANGED <<store, other_vars>>

\* update, lines 189-204: the attributes are assigned and manager.update
\* is entered, or setattr raises and ValidationError leaves update.
Assign(r) ==
    LET q == reqs[r]
        assigned == update_obj(q.db_obj.v, q.obj_in)
    IN  /\ q.pc = "assigning"
        /\ reqs' = [reqs EXCEPT ![r] =
               IF assigned.kind = "obj"
               THEN [@ EXCEPT !.pc = "in_transaction",
                              !.entity = assigned.obj,
                              !.manager_calls = Append(@, "update"),
                              !.remaining = write_body("update")]
               ELSE [@ EXCEPT !.pc = "returned",
                              !.outcome = [kind |-> "raise", exc |-> assigned]]]
        /\ UNCHANGED <<store, other_vars>>

\* The next session call of the manager's write returns.
WriteCallReturns(r) ==
    /\ reqs[r].pc = "in_transaction"
    /\ reqs[r].remaining # <<>>
    /\ reqs' = [[reqs EXCEPT ![session_of(r)].session =
                                 Append(@, Head(reqs[r].remaining))]
                   EXCEPT ![r].remaining = Tail(@)]
    /\ UNCHANGED <<store, other_vars>>

\* The next session call of the manager's write raises.
WriteCallRaises(r) ==
    /\ reqs[r].pc = "in_transaction"
    /\ reqs[r].remaining # <<>>
    /\ \E e \in SessionErrors :
          reqs' = [[reqs EXCEPT ![session_of(r)].session =
                                    Append(@, Head(reqs[r].remaining))]
                      EXCEPT ![r].exc = SessionError(e), ![r].pc = "raising"]
    /\ UNCHANGED <<store, other_vars>>

\* The body has completed: the scope exits and commits, and the table
\* takes the write.
Commit(r) ==
    /\ reqs[r].pc = "in_transaction"
    /\ reqs[r].remaining = <<>>
    /\ reqs' = [[reqs EXCEPT ![session_of(r)].session = Append(@, "commit")]
                   EXCEPT ![r].pc = "committed"]
    /\ store' = IF transaction_scope(reqs[r].strategy, reqs[r].op).commit
                THEN committed_table(store, reqs[r].op, reqs[r].entity)
                ELSE store
    /\ UNCHANGED other_vars

\* return obj, out of the scope, the manager and CRUDBase.
ReturnEntity(r) ==
    /\ reqs[r].pc = "committed"
    /\ reqs' = [reqs EXCEPT ![r].pc = "returned",
                            ![r].outcome = [kind |-> "return",
                                            value |-> Some(reqs[r].entity)]]
    /\ UNCHANGED <<store, other_vars>>

\* The body has raised: the scope exits, rolling back.
Rollback(r) ==
    /\ reqs[r].pc = "raising"
    /\ reqs' = [[reqs EXCEPT ![session_of(r)].session = Append(@, "rollback")]
                   EXCEPT ![r].pc = "rolled_back"]
    /\ UNCHANGED <<store, other_vars>>

\* The exception leaves the scope, the manager and CRUDBase.
Reraise(r) ==
    /\ reqs[r].pc = "rolled_back"
    /\ reqs' = [reqs EXCEPT ![r].pc = "returned",
                            ![r].outcome = [kind |-> "raise",
                                            exc |-> reqs[r].exc]]
    /\ UNCHANGED <<store, other_vars>>

\* The request is over and its session closed.
EndRequest(r) ==
    /\ reqs[r].pc = "returned"
    /\ reqs' = [reqs EXCEPT ![r] = IdleRequest]
    /\ UNCHANGED <<store, other_vars>>

CrudLookupReturns == \E r \in ConcurrentRequests : LookupReturns(r)
CrudLookupRaises == \E r \in ConcurrentRequests : LookupRaises(r)
CrudAssign == \E r \in ConcurrentRequests : Assign(r)
CrudWriteCallReturns == \E r \in ConcurrentRequests : WriteCallReturns(r)
CrudWriteCallRaises == \E r \in ConcurrentRequests : WriteCallRaises(r)
CrudCommit == \E r \in ConcurrentRequests : Commit(r)
CrudReturnEntity == \E r \in ConcurrentRequests : ReturnEntity(r)
CrudRollback == \E r \in ConcurrentRequests : Rollback(r)
CrudReraise == \E r \in ConcurrentRequests : Reraise(r)
CrudEndRequest == \E r \in ConcurrentRequests : EndRequest(r)

\* What a request does once called.
CrudSteps ==
    \/ CrudLookupReturns
    \/ CrudLookupRaises
    \/ CrudAssign
    \/ CrudWriteCallReturns
    \/ CrudWriteCallRaises
    \/ CrudCommit
    \/ CrudReturnEntity
    \/ CrudRollback
    \/ CrudReraise
    \/ CrudEndRequest

(***************************************************************************)
(* SpecCrud: one request at a time, over every model, identifier and       *)
(* argument below.                                                         *)
(***************************************************************************)
CrudModels ==
    {CrudModel("Category", <<"id">>, TRUE),
     CrudModel("Tag", <<"id">>, FALSE),
     CrudModel("Token", <<"uuid">>, TRUE)}

Identifiers ==
    {IntValue("1"), IntValue("2"), UuidStrValue("u1"), UuidStrValue("u2")}

\* The caller's query parameters for get: none, empty ones, one filter,
\* filters with a sort, an include and fields.
GetParams ==
    {NoneArg,
     Some(QueryParams(<<>>, <<>>, <<>>, <<>>)),
     Some(QueryParams(<<query_FilterSchema("name", "eq", Word("a"))>>,
                      <<>>, <<>>, <<>>)),
     Some(QueryParams(<<query_FilterSchema("name", "eq", Word("b")),
                        query_FilterSchema("unknown", "eq", Word("a"))>>,
                      << <<"-", "name">> >>, <<"tags">>, <<"name">>))}

\* obj_in of update: one attribute, in a dict or on a model instance.
UpdateInputs ==
    {[t |-> "dict", key |-> k, value |-> Some(Word("b")), setattr_raises |-> x] :
        k \in {"name", "unknown"}, x \in BOOLEAN}
    \cup
    {[t |-> "instance", key |-> k, value |-> v, setattr_raises |-> FALSE] :
        k \in {"name", "unknown"}, v \in {Some(Word("b")), NoneArg}}

\* obj_in of create: a dict the constructor takes or rejects, an instance.
CreateInputs ==
    {[t |-> "dict", constructor_raises |-> x, row |-> Row("2", "u2", "b")] :
        x \in BOOLEAN}
    \cup {[t |-> "instance", constructor_raises |-> FALSE,
           row |-> Row("2", "u2", "b")]}

SingleRequest == 1

CrudGet ==
    /\ pc = "idle"
    /\ \E strategy \in Strategies, model \in CrudModels, id \in Identifiers,
          query_params \in GetParams :
          StartLookup(SingleRequest, "get", strategy, model, id, NoCall,
                      query_params)

CrudUpdate ==
    /\ pc = "idle"
    /\ \E strategy \in Strategies, model \in CrudModels, id \in Identifiers,
          obj_in \in UpdateInputs :
          StartLookup(SingleRequest, "update", strategy, model, id, obj_in,
                      NoneArg)

CrudDelete ==
    /\ pc = "idle"
    /\ \E strategy \in Strategies, model \in CrudModels, id \in Identifiers :
          StartLookup(SingleRequest, "delete", strategy, model, id, NoCall,
                      NoneArg)

CrudCreate ==
    /\ pc = "idle"
    /\ \E strategy \in Strategies, model \in CrudModels,
          obj_in \in CreateInputs :
          StartCreate(SingleRequest, strategy, model, obj_in)

NextCrud == CrudGet \/ CrudUpdate \/ CrudDelete \/ CrudCreate \/ CrudSteps

SpecCrud == Init /\ [][NextCrud]_vars

(***************************************************************************)
(* SpecConcurrent: two requests at a time on the row of InitialStore and   *)
(* on a new one, each on its own session, their session calls interleaved. *)
(***************************************************************************)
SharedModel == CrudModel("Category", <<"id">>, TRUE)
SharedId == IntValue("1")
Rename ==
    [t |-> "dict", key |-> "name", value |-> Some(Word("b")),
     setattr_raises |-> FALSE]
NewRow ==
    [t |-> "dict", constructor_raises |-> FALSE, row |-> Row("2", "u2", "b")]

ConcurrentUpdate ==
    /\ pc = "idle"
    /\ \E r \in ConcurrentRequests, strategy \in Strategies :
          StartLookup(r, "update", strategy, SharedModel, SharedId, Rename,
                      NoneArg)

ConcurrentDelete ==
    /\ pc = "idle"
    /\ \E r \in ConcurrentRequests, strategy \in Strategies :
          StartLookup(r, "delete", strategy, SharedModel, SharedId, NoCall,
                      NoneArg)

ConcurrentCreate ==
    /\ pc = "idle"
    /\ \E r \in ConcurrentRequests, strategy \in Strategies :
          StartCreate(r, strategy, SharedModel, NewRow)

NextConcurrent ==
    ConcurrentUpdate \/ ConcurrentDelete \/ ConcurrentCreate \/ CrudSteps

SpecConcurrent == Init /\ [][NextConcurrent]_vars

(***************************************************************************)
(* Properties.  They read the arguments and the outcome of the finished    *)
(* call and restate what the outcome must be without using the resolver.   *)
(***************************************************************************)
Done == pc = "returned" /\ result # NoCall

\* A policy was supplied and restricts: the mode of lines 52-111.
PolicyMode == Done /\ ~allowed_filters.is_none /\ allowed_filters.v # <<>>

\* No policy was supplied.
PermissiveMode == Done /\ allowed_filters.is_none

policy == allowed_filters.v

HasAlias(k) == \E i \in DOMAIN policy : policy[i].alias = k
HasField(k) == \E i \in DOMAIN policy : policy[i].field = k

\* The aliases of the policy in its order.
PolicyAliases == [i \in DOMAIN policy |-> policy[i].alias]

\* The allowed filter a key stands for: the one with that alias, else the
\* last one with that field name.
Matched(k) ==
    IF HasAlias(k)
    THEN policy[CHOOSE i \in DOMAIN policy : policy[i].alias = k]
    ELSE policy[CHOOSE i \in DOMAIN policy :
                    /\ policy[i].field = k
                    /\ \A j \in DOMAIN policy : policy[j].field = k => j <= i]

\* Raw filter i passes the policy: its key is known and its operator, when
\* it has one, is allowed for the matched filter.
Passes(i) ==
    LET rf == raw_filters[i]
    IN  /\ HasAlias(rf.alias_or_field) \/ HasField(rf.alias_or_field)
        /\ rf.operator # None =>
              rf.operator \in Range(Matched(rf.alias_or_field).allowed_operators)

\* Raw filter i is the one the loop stops at or resolves: all before it pass.
Reached(i) == \A j \in 1..(i - 1) : Passes(j)

\* C1: in permissive mode a raw filter with no operator and two or more
\* values resolves to operator "in" with the list of its raw values.
C1_MultipleValuesResolveToIn ==
    PermissiveMode =>
        \A i \in DOMAIN raw_filters :
            (raw_filters[i].operator = None /\ Len(raw_filters[i].values) >= 2)
            => /\ result.kind = "return"
               /\ result.filters[i].field = raw_filters[i].alias_or_field
               /\ result.filters[i].operator = "in"
               /\ result.filters[i].value = ListValue(raw_filters[i].values)

\* C2: under a non-empty policy, the first raw filter that does not pass,
\* when its key is neither an alias nor a field name of the policy, makes
\* the call raise FilterNotAllowedError with that key as supplied and the
\* policy's keys; nothing is returned, whatever was resolved before it.
C2_UnknownKeyRaises ==
    PolicyMode =>
        \A i \in DOMAIN raw_filters :
            (/\ Reached(i)
             /\ ~HasAlias(raw_filters[i].alias_or_field)
             /\ ~HasField(raw_filters[i].alias_or_field))
            => /\ result.kind = "FilterNotAllowedError"
               /\ result.filter_name = raw_filters[i].alias_or_field
               /\ result.allowed_filters = PolicyAliases

\* C2 happens: a raw filter that passes, then one with an unknown key.
C2_Witness ==
    /\ PolicyMode
    /\ Len(raw_filters) = 2
    /\ Passes(1)
    /\ ~HasAlias(raw_filters[2].alias_or_field)
    /\ ~HasField(raw_filters[2].alias_or_field)
    /\ result.kind = "FilterNotAllowedError"
    /\ Len(policy) = 2

\* C3: under a policy, the first raw filter that does not pass, when its
\* key is known and its explicit operator is not among the matched filter's
\* allowed operators (an operator outside the registry included), makes the
\* call raise FilterOperatorNotAllowedError with the key, the operator and
\* the allowed operators.
C3_OperatorNotAllowedRaises ==
    PolicyMode =>
        \A i \in DOMAIN raw_filters :
            LET rf == raw_filters[i]
                k == rf.alias_or_field
            IN  (/\ Reached(i)
                 /\ HasAlias(k) \/ HasField(k)
                 /\ rf.operator # None
                 /\ rf.operator \notin Range(Matched(k).allowed_operators))
                => /\ result.kind = "FilterOperatorNotAllowedError"
                   /\ result.filter_name = k
                   /\ result.operator = rf.operator
                   /\ result.allowed_operators = Matched(k).allowed_operators

\* C3 happens twice over: exact("id") with filter[id][gt], and an operator
\* outside the registry.
C3_Witness ==
    /\ PolicyMode
    /\ policy = <<exact("id", None, NoneArg)>>
    /\ Len(raw_filters) = 2
    /\ raw_filters[1].operator = None
    /\ raw_filters[2].alias_or_field = "id"
    /\ raw_filters[2].operator = "gt"
    /\ result.kind = "FilterOperatorNotAllowedError"
    /\ result.allowed_operators = <<"eq", "ne", "in", "nin">>

C3_WitnessUnregistered ==
    /\ PolicyMode
    /\ Len(raw_filters) = 1
    /\ raw_filters[1].operator = "bogus"
    /\ result.kind = "FilterOperatorNotAllowedError"
    /\ result.operator = "bogus"

\* C4: under a policy the alias map is consulted before the field-name map:
\* a key that is the alias of A resolves to A's field under A's operator
\* rules, even when the key is also the field name of another allowed
\* filter; a key that is only a field name resolves to that name.
C4_AliasBeforeField ==
    PolicyMode =>
        \A i \in DOMAIN raw_filters :
            LET rf == raw_filters[i]
                k == rf.alias_or_field
            IN  /\ (result.kind = "return" /\ HasAlias(k))
                   => /\ result.filters[i].field = Matched(k).field
                      /\ result.filters[i].operator
                            \in Range(Matched(k).allowed_operators)
                /\ (result.kind = "return" /\ ~HasAlias(k) /\ HasField(k))
                   => result.filters[i].field = k
                /\ (/\ Reached(i)
                    /\ HasAlias(k)
                    /\ rf.operator # None
                    /\ rf.operator \notin Range(Matched(k).allowed_operators))
                   => result.kind = "FilterOperatorNotAllowedError"

\* C4 happens: key "id" is the alias of A (field "status") and the field
\* name of B (alias "s"); it resolves to A's field with A's default.
C4_Witness ==
    /\ PolicyMode
    /\ Len(policy) = 2
    /\ \E a, b \in DOMAIN policy :
          /\ policy[a].alias = "id" /\ policy[a].field = "status"
          /\ policy[b].field = "id" /\ policy[b].alias = "s"
          /\ policy[a].default_operator # policy[b].default_operator
    /\ result.kind = "return"
    /\ Len(raw_filters) = 1
    /\ raw_filters[1].alias_or_field = "id"
    /\ raw_filters[1].operator = None
    /\ result.filters[1].field = "status"

\* C4, second half: a key that is only a field name keeps that name.
C4_WitnessFieldOnly ==
    /\ PolicyMode
    /\ result.kind = "return"
    /\ Len(raw_filters) = 1
    /\ raw_filters[1].alias_or_field = "id"
    /\ ~HasAlias("id")
    /\ result.filters[1].field = "id"

\* C5: under a policy, a raw filter with no operator and a single value
\* resolves to the default operator of the matched allowed filter.
C5_DefaultOperatorOfPolicy ==
    (PolicyMode /\ result.kind = "return") =>
        \A i \in DOMAIN raw_filters :
            (raw_filters[i].operator = None /\ Len(raw_filters[i].values) = 1)
            => result.filters[i].operator
                  = Matched(raw_filters[i].alias_or_field).default_operator

\* C5 happens with a default other than the registry's "eq".
C5_Witness ==
    /\ PolicyMode
    /\ result.kind = "return"
    /\ Len(raw_filters) = 1
    /\ raw_filters[1].operator = None
    /\ Len(raw_filters[1].values) = 1
    /\ result.filters[1].operator = "gt"

\* The construction has run.
Constructed == pc = "returned" /\ obj # NoCall

\* The default operator a construction asks for: its argument, or the
\* preset's own (spec section 4.2).
RequestedDefault ==
    CASE ctor.kind \in {"__init__", "operator"} -> ctor.default_operator
      [] ctor.kind = "exact" -> "eq"
      [] ctor.kind = "partial" -> "icontains"
      [] ctor.kind = "begins_with" -> "istarts_with"
      [] ctor.kind = "ends_with" -> "iends_with"

\* C6: every AllowedFilter that exists after construction, by the
\* constructor or a preset, with or without a caller's operator list, has
\* its default operator among its allowed operators; a construction whose
\* default lies outside the supplied list raises and yields no object.
C6_DefaultOperatorIsAllowed ==
    Constructed =>
        /\ obj.kind \in {"AllowedFilter", "ValueError"}
        /\ obj.kind = "AllowedFilter" =>
              /\ obj.default_operator = RequestedDefault
              /\ obj.default_operator \in Range(obj.allowed_operators)
        /\ (/\ ~ctor.allowed_operators.is_none
            /\ RequestedDefault \notin Range(ctor.allowed_operators.v))
           => obj.kind = "ValueError"

\* C6 happens: AllowedFilter(field="id", default_operator="lt",
\* allowed_operators=["gt"]) raises.
C6_Witness ==
    /\ Constructed
    /\ ctor.kind = "__init__"
    /\ ctor.default_operator = "lt"
    /\ ctor.allowed_operators = Some(<<"gt">>)
    /\ obj = ValueError

\* C6 also happens through a preset given an operator list: exact with
\* ["gt"] raises, exact with ["gt", "eq"] yields an object.
C6_WitnessPreset ==
    /\ Constructed
    /\ ctor.kind = "exact"
    /\ ctor.allowed_operators = Some(<<"gt", "eq">>)
    /\ obj.kind = "AllowedFilter"
    /\ obj.allowed_operators = <<"gt", "eq">>

\* The trimmed, non-empty comma-separated tokens of raw values, in order.
RECURSIVE Tokens(_)
Tokens(vs) ==
    IF vs = <<>> THEN <<>>
    ELSE StripNonEmpty(Split(Head(vs))) \o Tokens(Tail(vs))

Trimmed(tok) ==
    tok # <<>> /\ tok[1] \notin Whitespace /\ tok[Len(tok)] \notin Whitespace

\* C7: a filter resolved to operator "in" carries the flat list of the
\* trimmed, non-empty comma-separated tokens of all its raw values.
C7_InValueIsTokenList ==
    (Done /\ result.kind = "return") =>
        \A i \in DOMAIN raw_filters :
            result.filters[i].operator = "in"
            => /\ result.filters[i].value = ListValue(Tokens(raw_filters[i].values))
               /\ \A n \in DOMAIN result.filters[i].value.l :
                     Trimmed(result.filters[i].value.l[n])

\* C8: a raw filter with explicit operator "nin" and one comma-containing
\* value resolves to the list of that value's trimmed, non-empty tokens.
C8_NinValueIsExploded ==
    (Done /\ result.kind = "return") =>
        \A i \in DOMAIN raw_filters :
            (/\ raw_filters[i].operator = "nin"
             /\ Len(raw_filters[i].values) = 1
             /\ HasComma(raw_filters[i].values[1]))
            => result.filters[i].value = ListValue(Tokens(raw_filters[i].values))

\* C9: a filter resolved to "is_null" or "is_not_null" carries a boolean,
\* true exactly when the first raw value lower-cased is "true", "1" or
\* "yes"; the other raw values play no part.
C9_NullCheckValueIsBoolean ==
    (Done /\ result.kind = "return") =>
        \A i \in DOMAIN raw_filters :
            result.filters[i].operator \in {"is_null", "is_not_null"}
            => result.filters[i].value
                  = BoolValue(Lower(raw_filters[i].values[1]) \in TruthyStrings)

\* C9 happens: "TRUE" followed by a second value that is not truthy
\* resolves to true.
C9_Witness ==
    /\ Done
    /\ result.kind = "return"
    /\ Len(raw_filters) = 1
    /\ raw_filters[1].operator = "is_null"
    /\ Len(raw_filters[1].values) = 2
    /\ raw_filters[1].values[1] = <<"T", "R", "U", "E">>
    /\ raw_filters[1].values[2] = <<"n", "o">>
    /\ result.filters[1].value = BoolValue(TRUE)

\* C10: for a filter resolved to an operator other than "in", "nin",
\* "is_null" and "is_not_null", a single raw value is carried as that exact
\* string, and several raw values under an explicit operator are carried as
\* the list of those exact strings with the explicit operator kept.
C10_OtherOperatorsPassThrough ==
    (Done /\ result.kind = "return") =>
        \A i \in DOMAIN raw_filters :
            LET rf == raw_filters[i]
                f == result.filters[i]
            IN  f.operator \notin {"in", "nin", "is_null", "is_not_null"}
                => /\ Len(rf.values) = 1 => f.value = StrValue(rf.values[1])
                   /\ (Len(rf.values) > 1 /\ rf.operator # None)
                      => /\ f.value = ListValue(rf.values)
                         /\ f.operator = rf.operator

\* C10 happens: explicit "eq" with two values that commas and blanks would
\* change if they were split or trimmed.
C10_Witness ==
    /\ Done
    /\ result.kind = "return"
    /\ Len(raw_filters) = 1
    /\ raw_filters[1].operator = "eq"
    /\ raw_filters[1].values = << <<"1", ",">>, <<" ", "1">> >>
    /\ result.filters[1].operator = "eq"
    /\ result.filters[1].value = ListValue(<< <<"1", ",">>, <<" ", "1">> >>)

\* C10, single value: commas and whitespace are kept.
C10_WitnessSingle ==
    /\ Done
    /\ result.kind = "return"
    /\ Len(raw_filters) = 1
    /\ raw_filters[1].operator = "gt"
    /\ raw_filters[1].values = << <<" ", ",">> >>
    /\ result.filters[1].value = StrValue(<<" ", ",">>)


\* The call returned a list of resolved filters.
ReturnedList == Done /\ result.kind = "return"

\* C11: with no policy supplied, a call whose raw filters each have at
\* least one value raises nothing, whatever the keys and the operator
\* strings, and returns for each raw filter a filter whose field is the raw
\* key and whose operator is the raw operator, or "eq" when it is absent.
C11_PermissiveNeverRejects ==
    PermissiveMode =>
        /\ result.kind = "return"
        /\ \A i \in DOMAIN raw_filters :
              /\ result.filters[i].field = raw_filters[i].alias_or_field
              /\ result.filters[i].operator
                    = IF raw_filters[i].operator = None
                      THEN "eq"
                      ELSE raw_filters[i].operator

\* The field and the operator raw filter i resolves to, read off the
\* request and the policy.
ExpectedField(i) ==
    IF PolicyMode
    THEN Matched(raw_filters[i].alias_or_field).field
    ELSE raw_filters[i].alias_or_field

ExpectedOperator(i) ==
    IF raw_filters[i].operator # None THEN raw_filters[i].operator
    ELSE IF PolicyMode
         THEN Matched(raw_filters[i].alias_or_field).default_operator
         ELSE "eq"

\* C12: whenever the call returns, with or without a policy, the result
\* has as many resolved filters as there are raw filters and the i-th
\* resolved filter carries the field, the operator and the values of the
\* i-th raw filter: nothing is dropped, merged, duplicated or reordered.
C12_OneResolvedPerRawInOrder ==
    ReturnedList =>
        /\ Len(result.filters) = Len(raw_filters)
        /\ \A i \in DOMAIN raw_filters :
              /\ result.filters[i].field = ExpectedField(i)
              /\ result.filters[i].operator = ExpectedOperator(i)
              /\ result.filters[i].value
                    \in {StrValue(raw_filters[i].values[1]),
                         ListValue(raw_filters[i].values)}

\* C12 happens under a policy: two raw filters that differ in key,
\* operator and values, both resolved.
C12_Witness ==
    /\ PolicyMode
    /\ ReturnedList
    /\ Len(raw_filters) = 2
    /\ raw_filters[1].alias_or_field # raw_filters[2].alias_or_field
    /\ raw_filters[1].operator # raw_filters[2].operator
    /\ raw_filters[1].values # raw_filters[2].values
    /\ result.filters[1].field # result.filters[2].field

\* C12 happens with no policy: two raw filters with different keys.
C12_WitnessPermissive ==
    /\ PermissiveMode
    /\ ReturnedList
    /\ Len(raw_filters) = 2
    /\ raw_filters[1].alias_or_field # raw_filters[2].alias_or_field


\* parse_filter_params has returned or raised.
ParsedDone == pc = "returned" /\ parsed # NoCall

\* The parameter names filter[<name>] and filter[<name>][<op>] with a
\* one-word name and operator.
IsFilterKey(key) ==
    Len(key) = 4 /\ key[3] \notin {"[", "]"} /\ key = FilterKey(key[3])

IsFilterOpKey(key) ==
    /\ Len(key) = 7
    /\ key[3] \notin {"[", "]"}
    /\ key[6] \notin {"[", "]"}
    /\ key = FilterOpKey(key[3], key[6])

\* The values the request gives under a parameter name, in order.
ValuesOf(key) ==
    LET Named(p) == p.key = key
        ps == SelectSeq(request, Named)
    IN  [i \in DOMAIN ps |-> ps[i].value]

\* C13: the parser does not default the operator: a parameter
\* filter[<name>] yields an entry named <name> whose operator is absent and
\* whose values are the raw strings given under that parameter, and a
\* request with filter[f]=a and filter[f][eq]=b yields two entries.
C13_ParserKeepsOperatorAbsent ==
    ParsedDone =>
        /\ \A i \in DOMAIN request :
              IsFilterKey(request[i].key) =>
                  /\ parsed.kind = "return"
                  /\ \E e \in Range(parsed.filters) :
                        /\ e.field = request[i].key[3]
                        /\ e.operator = None
                        /\ e.value = ListValue(ValuesOf(request[i].key))
        /\ \A i, j \in DOMAIN request :
              (/\ Len(request) = 2
               /\ IsFilterKey(request[i].key)
               /\ request[j].key = FilterOpKey(request[i].key[3], "eq"))
              => /\ parsed.kind = "return"
                 /\ Len(parsed.filters) = 2

\* C14: parsing never raises and validates no operator: every request
\* yields a list, and a parameter filter[<name>][<op>] whose <op> is not a
\* registered operator yields an entry carrying <op> as written.
C14_ParsingNeverRaises ==
    ParsedDone =>
        /\ parsed.kind = "return"
        /\ \A i \in DOMAIN request :
              (/\ IsFilterOpKey(request[i].key)
               /\ request[i].key[6] \notin FilterOperator)
              => \E e \in Range(parsed.filters) :
                    /\ e.field = request[i].key[3]
                    /\ e.operator = request[i].key[6]

\* The grammar of the filter parameters: "filter", "[", a non-empty name
\* free of "]", "]", then nothing or "[", a non-empty operator free of "]",
\* "]".
NoClose(key, a, b) == \A n \in a..b : key[n] # "]"

InGrammar(key) ==
    \E j \in 4..Len(key) :
        /\ key[1] = "filter"
        /\ key[2] = "["
        /\ NoClose(key, 3, j - 1)
        /\ key[j] = "]"
        /\ \/ j = Len(key)
           \/ /\ Len(key) >= j + 3
              /\ key[j + 1] = "["
              /\ NoClose(key, j + 2, Len(key) - 1)
              /\ key[Len(key)] = "]"

\* The name between the first pair of brackets.
GrammarName(key) ==
    LET j == CHOOSE n \in 4..Len(key) : key[n] = "]" /\ NoClose(key, 3, n - 1)
    IN  Join(SubSeq(key, 3, j - 1))

\* The request without the parameters outside the grammar.
GrammarOnly(pairs) ==
    LET Inside(p) == InGrammar(p.key)
    IN  SelectSeq(pairs, Inside)

C15_WitnessNoEntry ==
    /\ ParsedDone
    /\ Len(request) = 2
    /\ \A i \in DOMAIN request : ~InGrammar(request[i].key)
    /\ parsed = Returned(<<>>)


\* builder.apply(params) has returned.
BuiltDone == pc = "returned" /\ built # NoCall

\* The calls of one method on the built query, in order.
CallsOf(method) ==
    LET Is(c) == c.method = method
    IN  SelectSeq(built.calls, Is)

\* The loader options of one kind attached to the built query.
OptionsOf(kind) ==
    {o \in UNION {Range(c.args) : c \in Range(CallsOf("options"))} :
        o.option = kind}

\* The operators C16 is about: comparison, membership and pattern.
PredicateOperators ==
    {"eq", "ne", "gt", "gte", "lt", "lte", "in",
     "contains", "icontains", "starts_with", "istarts_with",
     "ends_with", "iends_with"}

\* C16: when every filter on a column has a comparison, membership or
\* pattern operator, the built query has exactly one predicate on that
\* column per such filter; in the scenario filter[name]=Tech,
\* filter[description][icontains]=innov, sort=-created_at it has the two
\* predicates and orders by created_at descending.
C16_OnePredicatePerFilter ==
    BuiltDone =>
        /\ \A c \in ModelColumns :
              (\A i \in DOMAIN params.filters :
                  params.filters[i].field = c
                  => params.filters[i].operator \in PredicateOperators)
              => Cardinality({k \in DOMAIN CallsOf("filter") :
                                 CallsOf("filter")[k].args.column = c})
                   = Cardinality({i \in DOMAIN params.filters :
                                     params.filters[i].field = c})
        /\ (params.filters = ScenarioFilters /\ params.sort = ScenarioSort)
           => /\ Len(CallsOf("filter")) = 2
              /\ CallsOf("order_by")
                   = <<QueryCall("order_by",
                                 <<[column |-> "created_at", desc |-> TRUE]>>)>>

\* Items the builder has nothing to apply to: a filter on a name the model
\* lacks or with an operator outside the operator map, a sort token on a
\* name the model lacks, an include that is no relationship.
SkippedFilter(f) ==
    f.field \notin ModelAttributes \/ f.operator \notin OPERATOR_MAP

SortField(token) ==
    IF token # <<>> /\ token[1] = "-"
    THEN Join(SubSeq(token, 2, Len(token)))
    ELSE Join(token)

SkippedSort(token) == SortField(token) \notin ModelAttributes

SkippedInclude(name) == name \notin ModelRelationships

Without(seq, Skipped(_)) ==
    LET Kept(x) == ~Skipped(x)
    IN  SelectSeq(seq, Kept)

\* The same parameters with the skipped items removed.
CleanedParams ==
    QueryParams(Without(params.filters, SkippedFilter),
                Without(params.sort, SkippedSort),
                Without(params.include, SkippedInclude),
                params.fields)

\* C17: the builder skips a filter on an unknown field, a filter with an
\* operator outside its map, a sort token on an unknown field and an
\* include that is no relationship: no call of the built query mentions
\* one of them, and the built query is the one built from the same
\* parameters with those items removed.
C17_UnknownItemsAreSkipped ==
    BuiltDone =>
        /\ \A c \in Range(CallsOf("filter")) :
              c.args.column \in ModelAttributes /\ c.args.test \in OPERATOR_MAP
        /\ \A c \in Range(CallsOf("order_by")) :
              \A k \in DOMAIN c.args : c.args[k].column \in ModelAttributes
        /\ \A o \in OptionsOf("selectinload") :
              o.relationship \in ModelRelationships
        /\ built.calls = apply(CleanedParams)

\* C17 happens: one item of each kind is skipped next to one that is
\* applied.
C17_Witness ==
    /\ BuiltDone
    /\ \E i \in DOMAIN params.filters : SkippedFilter(params.filters[i])
    /\ \E i \in DOMAIN params.sort : SkippedSort(params.sort[i])
    /\ \E i \in DOMAIN params.include : SkippedInclude(params.include[i])
    /\ Len(CallsOf("filter")) = 1
    /\ OptionsOf("selectinload") # {}

\* C17 happens for a filter on an unknown field with a mapped operator,
\* followed by a filter that is applied.
C17_WitnessUnknownField ==
    /\ BuiltDone
    /\ Len(params.filters) = 2
    /\ params.filters[1].field \notin ModelAttributes
    /\ params.filters[1].operator \in OPERATOR_MAP
    /\ Len(CallsOf("filter")) = 1

\* The clauses the valid sort tokens ask for, in token order.
ExpectedOrdering ==
    LET valid == Without(params.sort, SkippedSort)
    IN  [i \in DOMAIN valid |->
            [column |-> SortField(valid[i]),
             desc |-> valid[i][1] = "-"]]

\* C18: the built query is ordered by one clause per sort token whose
\* field exists on the model, in token order, descending exactly for the
\* tokens that start with "-"; when no token is valid, no ordering is
\* attached.
C18_SortClausesInTokenOrder ==
    BuiltDone =>
        IF ExpectedOrdering = <<>>
        THEN CallsOf("order_by") = <<>>
        ELSE CallsOf("order_by") = <<QueryCall("order_by", ExpectedOrdering)>>

\* C18 happens: a descending and an ascending token around nothing else.
C18_Witness ==
    /\ BuiltDone
    /\ Len(params.sort) = 2
    /\ params.sort[1] = <<"-", "created_at">>
    /\ params.sort[2] = <<"name">>
    /\ Len(CallsOf("order_by")) = 1
    /\ Len(CallsOf("order_by")[1].args) = 2

\* C18 happens with an unknown field before a valid token, and with no
\* valid token at all.
C18_WitnessUnknownSkipped ==
    /\ BuiltDone
    /\ Len(params.sort) = 2
    /\ SkippedSort(params.sort[1])
    /\ ~SkippedSort(params.sort[2])
    /\ Len(CallsOf("order_by")) = 1

C18_WitnessNoOrdering ==
    /\ BuiltDone
    /\ Len(params.sort) = 2
    /\ \A i \in DOMAIN params.sort : SkippedSort(params.sort[i])
    /\ CallsOf("order_by") = <<>>

\* The listed names that exist on the model.
ExistingFields == Range(params.fields) \cap ModelAttributes

\* The sets of columns the load is restricted to, one per load_only option.
LoadOnlySets == {Range(o.columns) : o \in OptionsOf("load_only")}

\* C19 as stated: every non-empty field list restricts the load to exactly
\* the listed names that exist on the model; an empty list restricts
\* nothing.
C19_FieldsRestrictLoad ==
    BuiltDone =>
        IF params.fields # <<>>
        THEN LoadOnlySets = {ExistingFields}
        ELSE LoadOnlySets = {}

\* C19 amended: a field list naming at least one attribute of the model
\* restricts the load to exactly the listed names that exist; an empty
\* list, and a list none of whose names exists, restricts nothing.
C19_ExistingFieldsRestrictLoad ==
    BuiltDone =>
        IF ExistingFields # {}
        THEN LoadOnlySets = {ExistingFields}
        ELSE LoadOnlySets = {}

\* C19 happens: a list with an existing and an unknown name.
C19_Witness ==
    /\ BuiltDone
    /\ Len(params.fields) = 2
    /\ ExistingFields # {}
    /\ Range(params.fields) \ ModelAttributes # {}
    /\ LoadOnlySets = {ExistingFields}

\* C19 happens for a list with unknown names only: nothing is restricted.
C19_WitnessNoneExists ==
    /\ BuiltDone
    /\ params.fields # <<>>
    /\ ExistingFields = {}
    /\ LoadOnlySets = {}


\* A write is in progress or finished, on a session of the right type.
InWrite ==
    /\ write # NoCall
    /\ write.op \in WriteOperations
    /\ session_type_ok(write.strategy, write.session_type)

\* How often the session has received a call.
Count(call) == Cardinality({i \in DOMAIN session : session[i] = call})

BodyRaised == write.exc # None

\* C20: in either manager, a write on a session of its type commits or
\* rolls back at most once and never both; a commit follows all the
\* session calls of the body and none of them raised; once the write has
\* left the manager exactly one of the two has happened: a write whose
\* body raised was rolled back, not committed, and raises that exception,
\* the others were committed and return the object.
C20_WritesCommitOrRollBack ==
    InWrite =>
        /\ Count("commit") + Count("rollback") <= 1
        /\ Count("commit") = 1
           => /\ ~BodyRaised
              /\ session = write_body(write.op) \o <<"commit">>
        /\ Count("rollback") = 1 => BodyRaised
        /\ pc = "returned"
           => /\ Count("commit") + Count("rollback") = 1
              /\ IF BodyRaised
                 THEN /\ session[Len(session)] = "rollback"
                      /\ outcome = [kind |-> "raise", exc |-> write.exc]
                 ELSE /\ session[Len(session)] = "commit"
                      /\ outcome = [kind |-> "return", value |-> write.obj]

\* C20 happens: a create whose refresh raised has been rolled back and
\* the exception has reached the caller.
C20_Witness ==
    /\ InWrite
    /\ pc = "returned"
    /\ write.op = "create"
    /\ session = <<"add", "flush", "refresh", "rollback">>
    /\ outcome = [kind |-> "raise", exc |-> "IntegrityError"]

\* C20 happens: a delete through the sync manager has been committed and
\* returned.
C20_WitnessCommitted ==
    /\ InWrite
    /\ pc = "returned"
    /\ write.strategy = "SyncCRUDManager"
    /\ write.op = "delete"
    /\ session = <<"delete", "commit">>
    /\ outcome = [kind |-> "return", value |-> write.obj]


\* The session handed to the manager is of the other kind.
SessionMismatch ==
    /\ write # NoCall
    /\ \/ write.strategy = "AsyncCRUDManager" /\ write.session_type = "Session"
       \/ write.strategy = "SyncCRUDManager" /\ write.session_type = "AsyncSession"

\* C24: list, get, create, update and delete of either manager, given a
\* session of the other kind, raise TypeError with no call made on the
\* session and no work offloaded to a worker thread.
C24_WrongSessionFailsFast ==
    SessionMismatch =>
        /\ pc = "returned"
        /\ outcome = [kind |-> "raise", exc |-> "TypeError"]
        /\ session = <<>>
        /\ ~write.offloaded

\* C24 happens: list of the sync manager on an AsyncSession.
C24_Witness ==
    /\ SessionMismatch
    /\ write.strategy = "SyncCRUDManager"
    /\ write.op = "list"
    /\ outcome = [kind |-> "raise", exc |-> "TypeError"]

\* C24 happens: delete of the async manager on a Session.
C24_WitnessWrite ==
    /\ SessionMismatch
    /\ write.strategy = "AsyncCRUDManager"
    /\ write.op = "delete"
    /\ outcome = [kind |-> "raise", exc |-> "TypeError"]

(***************************************************************************)
(* CRUDBase.                                                               *)
(***************************************************************************)
Active(r) == reqs[r].pc # "idle"

\* The request's get found no row.
NoRowMatched(r) == Active(r) /\ reqs[r].rows = Some({})

RaisedNotFound(q) ==
    /\ q.pc = "returned"
    /\ q.outcome.kind = "raise"
    /\ q.outcome.exc.kind = "NotFoundError"
    /\ q.outcome.exc.model_name = q.model.name
    /\ q.outcome.exc.id = q.id

\* C21: an update or delete whose get matched no row raises NotFoundError
\* with the model's name and the identifier, having called the session for
\* the lookup only and the manager for get only, with nothing assigned, and
\* the step that ends it leaves the table as it was.
C21_MissingEntityRaisesNotFound ==
    [][\A r \in ConcurrentRequests :
         (NoRowMatched(r)' /\ reqs'[r].op \in {"update", "delete"}) =>
             /\ RaisedNotFound(reqs'[r])
             /\ reqs'[r].session = <<"execute">>
             /\ reqs'[r].manager_calls = <<"get">>
             /\ reqs'[r].entity = NoCall
             /\ store' = store]_vars

C21_Witness ==
    /\ NoRowMatched(SingleRequest)
    /\ reqs[SingleRequest].op = "update"
    /\ RaisedNotFound(reqs[SingleRequest])
    /\ store = InitialStore

C21_WitnessDelete ==
    /\ NoRowMatched(SingleRequest)
    /\ reqs[SingleRequest].op = "delete"
    /\ RaisedNotFound(reqs[SingleRequest])
    /\ reqs[SingleRequest].id = UuidStrValue("u2")

\* C22 as stated: a get that matched no row raises NotFoundError with the
\* model's name and the identifier.
C22_GetRaisesNotFound ==
    \A r \in ConcurrentRequests :
        (NoRowMatched(r) /\ reqs[r].op = "get") => RaisedNotFound(reqs[r])

\* C22, amended: a get that matched no row returns None and raises
\* nothing, having called the session for the lookup only.
C22_GetReturnsNone ==
    \A r \in ConcurrentRequests :
        (NoRowMatched(r) /\ reqs[r].op = "get") =>
            /\ reqs[r].pc = "returned"
            /\ reqs[r].outcome = [kind |-> "return", value |-> NoneArg]
            /\ reqs[r].session = <<"execute">>

C22_Witness ==
    /\ NoRowMatched(SingleRequest)
    /\ reqs[SingleRequest].op = "get"
    /\ reqs[SingleRequest].id = IntValue("2")
    /\ reqs[SingleRequest].outcome.kind = "return"

\* The field get filters on: uuid for a UUID-like identifier when the model
\* has one, the first primary-key column otherwise.
ExpectedPkField(q) ==
    IF q.id.t \in {"uuid", "uuid_str"} /\ q.model.has_uuid
    THEN "uuid"
    ELSE q.model.primary_key[1]

Looking(r) == Active(r) /\ reqs[r].op \in {"get", "update", "delete"}

\* C23: the QueryParams that get, update and delete build their query from
\* hold the filter (primary-key field, "eq", id) first, then the caller's
\* filters in their order, and the caller's sort, include and fields; with
\* no caller parameters they hold that one filter and nothing else.
C23_GetInjectsPkFilterFirst ==
    \A r \in ConcurrentRequests :
        Looking(r) =>
            LET q == reqs[r]
                pk == [field |-> ExpectedPkField(q), operator |-> "eq",
                       value |-> q.id]
            IN  /\ q.query = apply(q.passed)
                /\ q.passed.filters[1] = pk
                /\ IF q.query_params.is_none
                   THEN q.passed = [filters |-> <<pk>>, sort |-> <<>>,
                                    include |-> <<>>, fields |-> <<>>]
                   ELSE /\ Tail(q.passed.filters) = q.query_params.v.filters
                        /\ q.passed.sort = q.query_params.v.sort
                        /\ q.passed.include = q.query_params.v.include
                        /\ q.passed.fields = q.query_params.v.fields

C23_Witness ==
    /\ Looking(SingleRequest)
    /\ reqs[SingleRequest].op = "get"
    /\ ~reqs[SingleRequest].query_params.is_none
    /\ Len(reqs[SingleRequest].query_params.v.filters) = 2
    /\ reqs[SingleRequest].passed.filters[1].field = "uuid"

C23_WitnessNoParams ==
    /\ Looking(SingleRequest)
    /\ reqs[SingleRequest].op = "delete"
    /\ Len(reqs[SingleRequest].passed.filters) = 1

Creating(r) == Active(r) /\ reqs[r].op = "create"

\* C25: create with a dict the constructor rejects raises ValidationError
\* naming the model, with the manager and the session never called; with a
\* dict it takes, the instance made from it goes to manager.create; with
\* an instance, that instance does.
C25_CreateValidatesInstantiation ==
    \A r \in ConcurrentRequests :
        Creating(r) =>
            LET q == reqs[r]
            IN  IF q.obj_in.t = "dict" /\ q.obj_in.constructor_raises
                THEN /\ q.pc = "returned"
                     /\ q.outcome.kind = "raise"
                     /\ q.outcome.exc.kind = "ValidationError"
                     /\ q.outcome.exc.model_name = q.model.name
                     /\ q.manager_calls = <<>>
                     /\ q.session = <<>>
                     /\ q.entity = NoCall
                ELSE /\ q.manager_calls = <<"create">>
                     /\ q.entity = q.obj_in.row

C25_Witness ==
    /\ Creating(SingleRequest)
    /\ reqs[SingleRequest].obj_in.t = "dict"
    /\ reqs[SingleRequest].obj_in.constructor_raises
    /\ reqs[SingleRequest].pc = "returned"

C25_WitnessInstance ==
    /\ Creating(SingleRequest)
    /\ reqs[SingleRequest].obj_in.t = "instance"
    /\ reqs[SingleRequest].pc = "returned"
    /\ reqs[SingleRequest].outcome.kind = "return"
    /\ reqs[SingleRequest].obj_in.row \in store

EmptyPolicyMode == Done /\ ~allowed_filters.is_none /\ allowed_filters.v = <<>>

\* C29: with an empty policy map the call accepts every key, raises no
\* FilterNotAllowedError, and returns or raises exactly what the call
\* without a policy does on the same raw filters.
C29_EmptyPolicyIsPermissive ==
    EmptyPolicyMode =>
        /\ result.kind # "FilterNotAllowedError"
        /\ result.kind = "return" =>
              \A i \in DOMAIN raw_filters :
                  result.filters[i].field = raw_filters[i].alias_or_field
        /\ result = resolve_and_validate_filters(raw_filters, NoneArg)

C29_Witness ==
    /\ EmptyPolicyMode
    /\ result.kind = "return"
    /\ \E i \in DOMAIN raw_filters : raw_filters[i].alias_or_field = "unknown"

\* A config was constructed with a policy and the request resolved under it.
ConfigDone ==
    /\ Done
    /\ ctor # NoCall
    /\ ctor.cls = "QueryBuilderConfig"
    /\ obj.allowed_filters # <<>>

\* Raw filter i has a key outside the policy.
UnknownKey(i) ==
    /\ ~HasAlias(raw_filters[i].alias_or_field)
    /\ ~HasField(raw_filters[i].alias_or_field)

\* C26: under a config with a policy, a request with a filter whose key is
\* outside the policy, and whose other filters pass, raises when
\* ignore_invalid_filters is false, and when it is true returns the other
\* filters resolved, the unknown one dropped.
C26_FlagDecidesUnknownFilters ==
    (/\ ConfigDone
     /\ \E i \in DOMAIN raw_filters : UnknownKey(i)
     /\ \A i \in DOMAIN raw_filters :
           ~UnknownKey(i) => Passes(i) /\ raw_filters[i].operator # "bogus")
    => IF obj.ignore_invalid_filters
       THEN /\ result.kind = "return"
            /\ Len(result.filters)
                  = Cardinality({i \in DOMAIN raw_filters : ~UnknownKey(i)})
            /\ \A i \in DOMAIN result.filters :
                  is_filter_allowed(obj, result.filters[i].field)
       ELSE result.kind = "FilterNotAllowedError"

(***************************************************************************)
(* Concurrent requests.                                                    *)
(***************************************************************************)
LastOf(calls) == calls[Len(calls)]

\* The request has entered a write of the sync manager.
SyncWrite(r) ==
    /\ Active(r)
    /\ reqs[r].strategy = "SyncCRUDManager"
    /\ reqs[r].manager_calls # <<>>
    /\ LastOf(reqs[r].manager_calls) \in WriteOperations

\* The calls the request's own write has made on a session so far: the
\* lookup, the calls of the body that were reached, the commit or the
\* rollback.
OwnCalls(q) ==
    LET body == write_body(q.op)
        reached == Len(body) - Len(q.remaining)
                   + (IF q.exc = NoCall THEN 0 ELSE 1)
    IN  (IF q.op = "create" THEN <<>> ELSE <<"execute">>)
        \o SubSeq(body, 1, reached)
        \o (IF q.exc = NoCall
            THEN IF q.pc \in {"committed", "returned"} THEN <<"commit">> ELSE <<>>
            ELSE IF q.pc \in {"rolled_back", "returned"} THEN <<"rollback">>
                 ELSE <<>>)

\* C27: whatever the other request does, the session of a write of the
\* sync manager holds the calls of that write alone, rolled back exactly
\* when its own body raised; the write raises to its caller exactly its
\* own exception, and otherwise commits and returns its object.
C27_OffloadedWritesAreIndependent ==
    \A r \in ConcurrentRequests :
        SyncWrite(r) =>
            LET q == reqs[r]
            IN  /\ q.session = OwnCalls(q)
                /\ q.pc = "returned" =>
                      IF q.exc = NoCall
                      THEN /\ q.outcome = [kind |-> "return",
                                           value |-> Some(q.entity)]
                           /\ LastOf(q.session) = "commit"
                      ELSE q.outcome = [kind |-> "raise", exc |-> q.exc]

\* C27 happens: two writes of the sync manager in flight, one rolled back
\* and about to raise, the other committed and about to return.
C27_Witness ==
    /\ SyncWrite(1)
    /\ SyncWrite(2)
    /\ reqs[1].pc = "rolled_back"
    /\ reqs[2].pc = "committed"
    /\ LastOf(reqs[1].session) = "rollback"
    /\ LastOf(reqs[2].session) = "commit"

C27_WitnessReturned ==
    /\ SyncWrite(1)
    /\ SyncWrite(2)
    /\ reqs[1].pc = "returned"
    /\ reqs[1].outcome.kind = "raise"
    /\ reqs[2].pc = "returned"
    /\ reqs[2].outcome.kind = "return"
    /\ reqs[2].op = "update"

\* C30: from the return of its get to its commit, the row an update found
\* is in the table.
C30_UpdateWritesExistingEntity ==
    \A r \in ConcurrentRequests :
        (/\ Active(r)
         /\ reqs[r].op = "update"
         /\ reqs[r].pc \in {"assigning", "in_transaction"})
        => \E row \in store : row.id = reqs[r].db_obj.v.id

====
